---- MODULE Spec2Model ----
(***************************************************************************)
(* Research loop registry: the research_loop tool (start, checkpoint,      *)
(* continue, status, list, close) over a single JSON registry file that is *)
(* guarded by a sidecar lock file.                                         *)
(*                                                                         *)
(* Representation.                                                         *)
(*   - An optional value (a key that may be undefined) is a sequence of    *)
(*     length at most one: None is <<>>, Some(v) is <<v>>.                 *)
(*   - A checkpoint's free text (summary, critique, whyNow, list entries)  *)
(*     is a sequence of one-character strings, so trim and length are      *)
(*     computed; topic and reason are opaque strings.                      *)
(*   - Numbers are integers (Math.floor and Math.round are then the        *)
(*     identity on every value the model draws).                           *)
(*   - crypto.randomUUID() yields a fresh identifier; identifiers are      *)
(*     named 1, 2, ... in the order they are generated, so the insertion   *)
(*     order of the registry Map is the order of the identifiers.          *)
(***************************************************************************)
EXTENDS Integers, Sequences, FiniteSets, TLC

VARIABLES
    file,       \* the registry document on disk: None (no file) or Some(document)
    lock,       \* the lock file: None or Some([owner, mtime])
    clock,      \* Date.now(), in milliseconds
    issued,     \* how many identifiers randomUUID has produced
    pc,         \* per process: where its mutating execute stands
    req,        \* per process: the request being executed
    startedAt,  \* per process: startedAt of withResearchLoopRegistryLock
    runs,       \* per process: the registry Map loaded inside the lock
    res,        \* per process: the response the mutator returned / execute returns
    ops,        \* operations the concurrent processes have issued
    loadedFrom  \* per process: None, or Some(the file as fn() loaded it) (history)

vars == <<file, lock, clock, issued, pc, req, startedAt, runs, res, ops, loadedFrom>>

-----------------------------------------------------------------------------
(* Bounds of the model *)

MaxLoops == 2           \* identifiers randomUUID may produce
MaxTicks == 1           \* how often the clock advances
MaxMutations == 4       \* successful mutations of the registry in one behaviour
TickMs == 10001         \* milliseconds per advance of the clock
MaxRoundsIn == 2        \* largest maxRounds a start request supplies
NumProcs == 2           \* concurrently executing mutating operations
MaxOps == 3             \* operations the concurrent processes issue in total
MaxLockTicks == 3       \* how often the clock advances while processes contend
MaxAges == 1            \* how often a day passes between operations

(* Program constants *)

REGISTRY_VERSION == 1
DefaultTimeoutMs == 10000
DefaultPollIntervalMs == 25
DefaultStaleMs == 30000
DefaultMaxRounds == 2
MaxMaxRounds == 20
DefaultLimit == 20
MaxLimit == 100
DefaultStaleHours == 24
MaxStaleHours == 720
MsPerHour == 3600000
MaxTaskItems == 20
MaxTaskChars == 280
MaxCitationItems == 20
MaxCitationChars == 500
MaxCounterpointItems == 10
MaxCounterpointChars == 280
MaxWhyNowChars == 280
ReviewQualityThreshold == 65
SpawnQualityThreshold == 40
SpawnConfidenceThreshold == 4
SpawnPriorityThreshold == 12

-----------------------------------------------------------------------------
(* Optional values and text *)

None == <<>>
Some(v) == <<v>>
IsSome(o) == Len(o) > 0
Get(o) == o[1]
OrElse(o, d) == IF IsSome(o) THEN o[1] ELSE d

\* An optional number is <<>> (missing, or not a finite number), <<k>> (the
\* integer k) or <<k, 1>> (k + 1/2, a number that is not an integer).
Number(k) == <<k>>
Half(k) == <<k, 1>>
IsInteger(n) == Len(n) = 1
Floor(n) == n[1]
Round(n) == IF IsInteger(n) THEN n[1] ELSE n[1] + 1
\* n < k and n > k for an integer k.
Below(n, k) == n[1] < k
Above(n, k) == IF IsInteger(n) THEN n[1] > k ELSE n[1] >= k

\* The element of a singleton set. {F(x) : x \in {e}} computes e once and
\* names it x in F, as a const declaration does.
The(S) == CHOOSE x \in S : TRUE

Min(a, b) == IF a < b THEN a ELSE b
Max(a, b) == IF a > b THEN a ELSE b

Chars(n) == [i \in 1..n |-> "x"]
Slice(s, n) == SubSeq(s, 1, Min(Len(s), n))

RECURSIVE TrimLeft(_)
TrimLeft(s) == IF s # <<>> /\ Head(s) = " " THEN TrimLeft(Tail(s)) ELSE s

RECURSIVE TrimRight(_)
TrimRight(s) ==
    IF s # <<>> /\ s[Len(s)] = " " THEN TrimRight(SubSeq(s, 1, Len(s) - 1)) ELSE s

Trim(s) == TrimRight(TrimLeft(s))

-----------------------------------------------------------------------------
(* research-loop-registry.store.ts: normalization and scoring *)

LoopStates == {"active", "awaiting_decision", "closed"}
LoopPriorities == {"low", "normal", "high"}
LoopRecommendations == {"continue", "stop", "needs_input"}
LoopViews == {"all", "needs_decision", "needs_review", "hot", "stale"}

DEFAULT_AGENT_ID == "main"

\* routing/session-key: an agent id that is already in normal form is kept,
\* an empty one becomes the default agent.
normalizeAgentId(id) == IF id = "" THEN DEFAULT_AGENT_ID ELSE id

\* A session key is <<"agent", agentId, rest>>; no key resolves to the
\* default agent.
resolveAgentIdFromSessionKey(key) ==
    IF IsSome(key) /\ Len(Get(key)) >= 2 /\ Get(key)[1] = "agent"
    THEN normalizeAgentId(Get(key)[2])
    ELSE DEFAULT_AGENT_ID

normalizeRating(value) ==
    IF ~IsSome(value) THEN None
    ELSE LET rounded == Floor(value)
         IN IF rounded < 1 THEN Some(1)
            ELSE IF rounded > 5 THEN Some(5)
            ELSE Some(rounded)

normalizeWhyNow(value) ==
    IF ~IsSome(value) THEN None
    ELSE IF Trim(Get(value)) = <<>> THEN None
    ELSE Some(Slice(Trim(Get(value)), MaxWhyNowChars))

MapSeq(s, F(_)) == [i \in 1..Len(s) |-> F(s[i])]

normalizeStringList(value, maxItems, maxChars) ==
    IF ~IsSome(value) THEN None
    ELSE LET trimmed == MapSeq(Get(value), Trim)
             kept == SelectSeq(trimmed, LAMBDA e : e # <<>>)
             capped == Slice(kept, maxItems)
             normalized == MapSeq(capped, LAMBDA e : Slice(e, maxChars))
         IN IF Len(normalized) > 0 THEN Some(normalized) ELSE None

normalizeQualityScore(value) ==
    IF ~IsSome(value) THEN None
    ELSE LET rounded == Round(value)
         IN IF rounded < 0 THEN Some(0)
            ELSE IF rounded > 100 THEN Some(100)
            ELSE Some(rounded)

OptLen(list) == IF IsSome(list) THEN Len(Get(list)) ELSE 0
OptNonBlank(text) == IsSome(text) /\ Trim(Get(text)) # <<>>

\* A score that is the sum of the parts, without the clamp.
computeScoreUnclamped(input) ==
    (IF Len(Trim(input.summary)) >= 160 THEN 20
     ELSE IF Len(Trim(input.summary)) >= 80 THEN 16
     ELSE IF Len(Trim(input.summary)) >= 40 THEN 12
     ELSE IF Len(Trim(input.summary)) >= 20 THEN 8
     ELSE 0)
    + (IF OptNonBlank(input.critique) THEN 20 ELSE 0)
    + (IF OptLen(input.citationLinks) >= 3 THEN 25
       ELSE IF OptLen(input.citationLinks) >= 1 THEN 15
       ELSE 0)
    + (IF OptLen(input.counterpoints) >= 2 THEN 15
       ELSE IF OptLen(input.counterpoints) = 1 THEN 10
       ELSE 0)
    + (IF OptLen(input.proposedTasks) >= 2 THEN 10
       ELSE IF OptLen(input.proposedTasks) = 1 THEN 6
       ELSE 0)
    + (IF IsSome(input.evidenceQuality) THEN Get(input.evidenceQuality) * 2 ELSE 0)
    + (IF OptNonBlank(input.whyNow) THEN 5 ELSE 0)

computeResearchLoopAnalysisQualityScore(input) ==
    LET summaryLength == Len(Trim(input.summary))
        citationCount == OptLen(input.citationLinks)
        counterpointCount == OptLen(input.counterpoints)
        proposedTaskCount == OptLen(input.proposedTasks)
        score ==
              (IF summaryLength >= 160 THEN 20
               ELSE IF summaryLength >= 80 THEN 16
               ELSE IF summaryLength >= 40 THEN 12
               ELSE IF summaryLength >= 20 THEN 8
               ELSE 0)
            + (IF OptNonBlank(input.critique) THEN 20 ELSE 0)
            + (IF citationCount >= 3 THEN 25
               ELSE IF citationCount >= 1 THEN 15
               ELSE 0)
            + (IF counterpointCount >= 2 THEN 15
               ELSE IF counterpointCount = 1 THEN 10
               ELSE 0)
            + (IF proposedTaskCount >= 2 THEN 10
               ELSE IF proposedTaskCount = 1 THEN 6
               ELSE 0)
            + (IF IsSome(input.evidenceQuality) THEN Get(input.evidenceQuality) * 2 ELSE 0)
            + (IF OptNonBlank(input.whyNow) THEN 5 ELSE 0)
    IN IF score < 0 THEN 0 ELSE IF score > 100 THEN 100 ELSE score

-----------------------------------------------------------------------------
(* research-loop-registry.store.ts: the persisted document *)

EmptyRegistry == [id \in {} |-> id]

serializeResearchLoopRegistry(registry) ==
    [version |-> REGISTRY_VERSION, loops |-> registry]

\* The checkpoint normalization of loadResearchLoopRegistryFromDisk.
LoadCheckpoint(checkpoint) ==
    LET importance == normalizeRating(checkpoint.importance)
        urgency == normalizeRating(checkpoint.urgency)
        confidence == normalizeRating(checkpoint.confidence)
        evidenceQuality == normalizeRating(checkpoint.evidenceQuality)
        citationLinks ==
            normalizeStringList(checkpoint.citationLinks, MaxCitationItems, MaxCitationChars)
        counterpoints ==
            normalizeStringList(checkpoint.counterpoints, MaxCounterpointItems,
                                MaxCounterpointChars)
        proposedTasks ==
            normalizeStringList(checkpoint.proposedTasks, MaxTaskItems, MaxTaskChars)
        whyNow == normalizeWhyNow(checkpoint.whyNow)
        analysisQualityScoreRaw == normalizeQualityScore(checkpoint.analysisQualityScore)
    IN [round |-> Max(1, checkpoint.round),
        summary |-> checkpoint.summary,
        critique |-> checkpoint.critique,
        recommendation |->
            IF checkpoint.recommendation \in LoopRecommendations
            THEN checkpoint.recommendation ELSE "needs_input",
        proposedTasks |-> proposedTasks,
        importance |-> importance,
        urgency |-> urgency,
        confidence |-> confidence,
        evidenceQuality |-> evidenceQuality,
        citationLinks |-> citationLinks,
        counterpoints |-> counterpoints,
        whyNow |-> whyNow,
        analysisQualityScore |->
            IF IsSome(analysisQualityScoreRaw) THEN analysisQualityScoreRaw
            ELSE Some(computeResearchLoopAnalysisQualityScore(
                     [summary |-> checkpoint.summary,
                      critique |-> checkpoint.critique,
                      proposedTasks |-> proposedTasks,
                      evidenceQuality |-> evidenceQuality,
                      citationLinks |-> citationLinks,
                      counterpoints |-> counterpoints,
                      whyNow |-> whyNow])),
        priorityScore |->
            IF IsSome(checkpoint.priorityScore) THEN checkpoint.priorityScore
            ELSE IF IsSome(importance) /\ IsSome(urgency)
                 THEN Some(Get(importance) * Get(urgency))
                 ELSE None,
        createdAt |-> checkpoint.createdAt]

\* A load that returns the records without their decisions.
LoadRecordNoDecisions(typed) == [typed EXCEPT !.decisions = <<>>]

\* The record normalization of loadResearchLoopRegistryFromDisk.
LoadRecord(typed) ==
    [loopId |-> typed.loopId,
     topic |-> typed.topic,
     ownerAgentId |-> normalizeAgentId(typed.ownerAgentId),
     state |-> IF typed.state \in LoopStates THEN typed.state ELSE "active",
     currentRound |-> Max(1, typed.currentRound),
     maxRounds |-> Max(1, typed.maxRounds),
     priority |-> IF typed.priority \in LoopPriorities THEN typed.priority ELSE "normal",
     createdAt |-> typed.createdAt,
     updatedAt |-> typed.updatedAt,
     startedBySessionKey |-> typed.startedBySessionKey,
     closedAt |-> typed.closedAt,
     closeReason |->
         IF IsSome(typed.closeReason) /\ Get(typed.closeReason) # "" THEN typed.closeReason
         ELSE None,
     checkpoints |-> MapSeq(typed.checkpoints, LoadCheckpoint),
     decisions |-> typed.decisions]

\* A load that reads the loops of a document of any version.
loadAnyVersion(stored) ==
    IF ~IsSome(stored) THEN EmptyRegistry
    ELSE LET loops == Get(stored).loops
             keep == {id \in DOMAIN loops : loops[id].topic # ""}
         IN [id \in keep |-> LoadRecord(loops[id])]

\* loadResearchLoopRegistryFromDisk: no file, or a document of another
\* version, is an empty registry; records without a topic are skipped.
loadResearchLoopRegistryFromDisk(stored) ==
    IF ~IsSome(stored) THEN EmptyRegistry
    ELSE IF Get(stored).version # 1 THEN EmptyRegistry
    ELSE LET loops == Get(stored).loops
             keep == {id \in DOMAIN loops : loops[id].topic # ""}
         IN [id \in keep |-> LoadRecord(loops[id])]

\* saveResearchLoopRegistryUnlocked, at the rename: the document replaces the file.
SavedFile(registry) == Some(serializeResearchLoopRegistry(registry))

-----------------------------------------------------------------------------
(* research-loop tool: parameter handling *)

\* tools/common: a missing or blank string parameter reads as undefined.
readStringParam(value) ==
    IF IsSome(value) /\ Get(value) # "" THEN value ELSE None

\* tools/common, for free text: the value is trimmed; blank reads as undefined.
readTextParam(value) ==
    IF IsSome(value) /\ Trim(Get(value)) # <<>> THEN Some(Trim(Get(value))) ELSE None

normalizePriority(value) ==
    IF value = Some("low") \/ value = Some("high") THEN Get(value) ELSE "normal"

normalizeRecommendation(value) ==
    IF value = Some("continue") \/ value = Some("stop") THEN Get(value) ELSE "needs_input"

normalizeStateFilter(value) ==
    IF IsSome(value) /\ Get(value) \in LoopStates THEN value ELSE None

normalizeListView(value) ==
    IF IsSome(value) /\ Get(value) \in {"needs_decision", "needs_review", "hot", "stale"}
    THEN Get(value) ELSE "all"

normalizeMaxRounds(value) ==
    IF ~IsSome(value) THEN DefaultMaxRounds
    ELSE LET rounded == Floor(value)
         IN IF rounded < 1 THEN 1
            ELSE IF rounded > MaxMaxRounds THEN MaxMaxRounds
            ELSE rounded

normalizeRatingParam(value) ==
    IF ~IsSome(value) THEN None
    ELSE LET rounded == Floor(value)
         IN IF rounded < 1 THEN Some(1)
            ELSE IF rounded > 5 THEN Some(5)
            ELSE Some(rounded)

\* A window that is a day whatever is asked for.
normalizeStaleHoursFixed(value) == DefaultStaleHours

normalizeStaleHours(value) ==
    IF ~IsSome(value) THEN DefaultStaleHours
    ELSE LET rounded == Floor(value)
         IN IF rounded < 1 THEN 1
            ELSE IF rounded > MaxStaleHours THEN MaxStaleHours
            ELSE rounded

sanitizeStringList(value, maxItems, maxChars) ==
    IF ~IsSome(value) THEN None
    ELSE LET trimmed == MapSeq(Get(value), Trim)
             kept == SelectSeq(trimmed, LAMBDA e : e # <<>>)
             capped == Slice(kept, maxItems)
             normalized == MapSeq(capped, LAMBDA e : Slice(e, maxChars))
         IN IF Len(normalized) > 0 THEN Some(normalized) ELSE None

sanitizeProposedTasks(value) == sanitizeStringList(value, MaxTaskItems, MaxTaskChars)

sanitizeWhyNow(value) ==
    IF ~IsSome(value) \/ Get(value) = <<>> THEN None
    ELSE Some(Slice(Get(value), MaxWhyNowChars))

\* The limit of list: 0 is falsy and gives the default; the number is
\* clamped, not floored, and slice(0, limit) then drops its fraction.
normalizeLimit(limitRaw) ==
    IF IsSome(limitRaw) /\ limitRaw # Number(0)
    THEN IF Below(limitRaw, 1) THEN 1
         ELSE IF Above(limitRaw, MaxLimit) THEN MaxLimit
         ELSE Floor(limitRaw)
    ELSE DefaultLimit

-----------------------------------------------------------------------------
(* research-loop tool: derived signals and views of a loop *)

LastCheckpoint(loop) ==
    IF Len(loop.checkpoints) > 0 THEN Some(loop.checkpoints[Len(loop.checkpoints)])
    ELSE None

resolveLatestPriorityScore(loop) ==
    IF IsSome(LastCheckpoint(loop))
    THEN OrElse(Get(LastCheckpoint(loop)).priorityScore, 0)
    ELSE 0

resolveLatestAnalysisQualityScore(loop) ==
    IF IsSome(LastCheckpoint(loop))
    THEN OrElse(Get(LastCheckpoint(loop)).analysisQualityScore, 0)
    ELSE 0

\* A review test that does not look at the citation links.
checkpointNeedsReviewNoCitations(loop) ==
    IF ~IsSome(LastCheckpoint(loop)) THEN FALSE
    ELSE LET latest == Get(LastCheckpoint(loop))
         IN IF OrElse(latest.analysisQualityScore, 0) < ReviewQualityThreshold THEN TRUE
            ELSE ~OptNonBlank(latest.critique)

checkpointNeedsReview(loop) ==
    IF ~IsSome(LastCheckpoint(loop)) THEN FALSE
    ELSE LET latest == Get(LastCheckpoint(loop))
         IN IF OrElse(latest.analysisQualityScore, 0) < ReviewQualityThreshold THEN TRUE
            ELSE IF ~OptNonBlank(latest.critique) THEN TRUE
            ELSE IF OptLen(latest.citationLinks) < 1 THEN TRUE
            ELSE FALSE

\* An advice that does not look at the confidence.
buildSpawnAdviceAnyConfidence(loop, canContinue) ==
    LET latest == Get(LastCheckpoint(loop))
        no(reason) == [shouldSpawn |-> FALSE, reason |-> reason, suggestedTask |-> None]
    IN IF ~IsSome(LastCheckpoint(loop)) THEN no("No checkpoint available.")
       ELSE IF latest.recommendation # "continue"
       THEN no("Checkpoint recommendation is not continue.")
       ELSE IF ~canContinue THEN no("Max rounds reached; review or close.")
       ELSE IF OptLen(latest.proposedTasks) = 0 THEN no("No proposed tasks to delegate.")
       ELSE IF OrElse(latest.analysisQualityScore, 0) < SpawnQualityThreshold
       THEN no("Analysis quality is too low; improve checkpoint quality first.")
       ELSE IF ~(OrElse(latest.priorityScore, 0) >= SpawnPriorityThreshold
                 \/ loop.priority = "high")
       THEN no("Priority score is below delegation threshold.")
       ELSE [shouldSpawn |-> TRUE,
             reason |-> "High-priority, unresolved checkpoint with clear follow-up task.",
             suggestedTask |-> Some(Get(latest.proposedTasks)[1])]

buildSpawnAdvice(loop, canContinue) ==
    IF ~IsSome(LastCheckpoint(loop))
    THEN [shouldSpawn |-> FALSE, reason |-> "No checkpoint available.", suggestedTask |-> None]
    ELSE LET latest == Get(LastCheckpoint(loop))
             task == IF OptLen(latest.proposedTasks) > 0
                     THEN Some(Get(latest.proposedTasks)[1]) ELSE None
             highPriority == OrElse(latest.priorityScore, 0) >= SpawnPriorityThreshold
                             \/ loop.priority = "high"
         IN IF latest.recommendation # "continue"
            THEN [shouldSpawn |-> FALSE,
                  reason |-> "Checkpoint recommendation is not continue.",
                  suggestedTask |-> None]
            ELSE IF ~canContinue
            THEN [shouldSpawn |-> FALSE,
                  reason |-> "Max rounds reached; review or close.",
                  suggestedTask |-> None]
            ELSE IF ~IsSome(task)
            THEN [shouldSpawn |-> FALSE,
                  reason |-> "No proposed tasks to delegate.",
                  suggestedTask |-> None]
            ELSE IF OrElse(latest.analysisQualityScore, 0) < SpawnQualityThreshold
            THEN [shouldSpawn |-> FALSE,
                  reason |-> "Analysis quality is too low; improve checkpoint quality first.",
                  suggestedTask |-> None]
            ELSE IF IsSome(latest.confidence)
                    /\ Get(latest.confidence) >= SpawnConfidenceThreshold
            THEN [shouldSpawn |-> FALSE,
                  reason |-> "Confidence is already high; delegation is optional.",
                  suggestedTask |-> None]
            ELSE IF ~highPriority
            THEN [shouldSpawn |-> FALSE,
                  reason |-> "Priority score is below delegation threshold.",
                  suggestedTask |-> None]
            ELSE [shouldSpawn |-> TRUE,
                  reason |-> "High-priority, unresolved checkpoint with clear follow-up task.",
                  suggestedTask |-> task]

toLoopDetails(loop) ==
    [loopId |-> loop.loopId,
     topic |-> loop.topic,
     ownerAgentId |-> loop.ownerAgentId,
     state |-> loop.state,
     currentRound |-> loop.currentRound,
     maxRounds |-> loop.maxRounds,
     priority |-> loop.priority,
     createdAt |-> loop.createdAt,
     updatedAt |-> loop.updatedAt,
     closedAt |-> loop.closedAt,
     closeReason |-> loop.closeReason,
     remainingRounds |-> Max(0, loop.maxRounds - loop.currentRound),
     startedBySessionKey |-> loop.startedBySessionKey,
     lastCheckpoint |-> LastCheckpoint(loop),
     checkpoints |-> loop.checkpoints,
     decisions |-> loop.decisions]

ErrorResult(message) == [status |-> "error", error |-> message]

\* A lookup that does not compare the owner with the requester.
getLoopOrErrorAnyOwner(registry, loopId, requesterAgentId) ==
    IF ~IsSome(loopId) THEN [ok |-> FALSE, error |-> <<"loopId required">>]
    ELSE IF Get(loopId) \notin DOMAIN registry
    THEN [ok |-> FALSE, error |-> <<"research loop not found: ", Get(loopId)>>]
    ELSE [ok |-> TRUE, loop |-> registry[Get(loopId)]]

getLoopOrError(registry, loopId, requesterAgentId) ==
    IF ~IsSome(loopId) THEN [ok |-> FALSE, error |-> <<"loopId required">>]
    ELSE IF Get(loopId) \notin DOMAIN registry
    THEN [ok |-> FALSE, error |-> <<"research loop not found: ", Get(loopId)>>]
    ELSE IF registry[Get(loopId)].ownerAgentId # requesterAgentId
    THEN [ok |-> FALSE, error |-> <<"research loop not accessible: ", Get(loopId)>>]
    ELSE [ok |-> TRUE, loop |-> registry[Get(loopId)]]

\* Map.set, and the in-place update of a record held by the Map.
SetLoop(registry, loopId, loop) ==
    [id \in DOMAIN registry \cup {loopId} |-> IF id = loopId THEN loop ELSE registry[id]]

-----------------------------------------------------------------------------
(* research-loop tool: the mutators handed to updateResearchLoopRegistry.   *)
(* Each takes the loaded registry and yields the registry to save and the  *)
(* result to return.                                                       *)

\* A start that returns the requester's loop on the same topic when there
\* is one, and creates a loop only when there is none.
StartMutatorIdempotent(registry, r, now, loopId) ==
    LET requesterAgentId == resolveAgentIdFromSessionKey(r.session)
        same == {id \in DOMAIN registry :
                    /\ registry[id].ownerAgentId = requesterAgentId
                    /\ registry[id].topic = Get(readStringParam(r.topic))}
    IN IF same # {}
       THEN [registry |-> registry,
             result |-> [status |-> "started",
                         loop |-> toLoopDetails(registry[CHOOSE id \in same : TRUE])]]
       ELSE The({[registry |-> SetLoop(registry, loopId, loop),
                  result |-> [status |-> "started", loop |-> toLoopDetails(loop)]] :
                 loop \in {[loopId |-> loopId,
                            topic |-> Get(readStringParam(r.topic)),
                            ownerAgentId |-> requesterAgentId,
                            state |-> "active",
                            currentRound |-> 1,
                            maxRounds |-> normalizeMaxRounds(r.maxRounds),
                            priority |-> normalizePriority(r.priority),
                            createdAt |-> now,
                            updatedAt |-> now,
                            startedBySessionKey |-> r.session,
                            closedAt |-> None,
                            closeReason |-> None,
                            checkpoints |-> <<>>,
                            decisions |-> <<>>]}})

\* The mutator of start: one new record under a fresh loopId.
StartMutator(registry, r, now, loopId) ==
    LET requesterAgentId == resolveAgentIdFromSessionKey(r.session)
    IN The({[registry |-> SetLoop(registry, loopId, loop),
             result |-> [status |-> "started", loop |-> toLoopDetails(loop)]] :
            loop \in {[loopId |-> loopId,
                       topic |-> Get(readStringParam(r.topic)),
                       ownerAgentId |-> requesterAgentId,
                       state |-> "active",
                       currentRound |-> 1,
                       maxRounds |-> normalizeMaxRounds(r.maxRounds),
                       priority |-> normalizePriority(r.priority),
                       createdAt |-> now,
                       updatedAt |-> now,
                       startedBySessionKey |-> r.session,
                       closedAt |-> None,
                       closeReason |-> None,
                       checkpoints |-> <<>>,
                       decisions |-> <<>>]}})

\* The checkpoint record built from the request, before the lock is taken.
CheckpointFromParams(r) ==
    LET summary == Get(readTextParam(r.summary))
        critique == readTextParam(r.critique)
        proposedTasks == sanitizeProposedTasks(r.proposedTasks)
        importance == normalizeRatingParam(r.importance)
        urgency == normalizeRatingParam(r.urgency)
        confidence == normalizeRatingParam(r.confidence)
        evidenceQuality == normalizeRatingParam(r.evidenceQuality)
        citationLinks ==
            sanitizeStringList(r.citationLinks, MaxCitationItems, MaxCitationChars)
        counterpoints ==
            sanitizeStringList(r.counterpoints, MaxCounterpointItems, MaxCounterpointChars)
        whyNow == sanitizeWhyNow(readTextParam(r.whyNow))
    IN [summary |-> summary,
        critique |-> critique,
        recommendation |-> normalizeRecommendation(r.recommendation),
        proposedTasks |-> proposedTasks,
        importance |-> importance,
        urgency |-> urgency,
        confidence |-> confidence,
        evidenceQuality |-> evidenceQuality,
        citationLinks |-> citationLinks,
        counterpoints |-> counterpoints,
        whyNow |-> whyNow,
        analysisQualityScore |->
            The({Some(computeResearchLoopAnalysisQualityScore(input)) :
                 input \in {[summary |-> summary,
                             critique |-> critique,
                             proposedTasks |-> proposedTasks,
                             evidenceQuality |-> evidenceQuality,
                             citationLinks |-> citationLinks,
                             counterpoints |-> counterpoints,
                             whyNow |-> whyNow]}}),
        priorityScore |->
            IF IsSome(importance) /\ IsSome(urgency)
            THEN Some(Get(importance) * Get(urgency)) ELSE None]

\* A checkpoint guard that rejects closed loops only.
CheckpointGuardClosedOnly(loop) ==
    IF loop.state = "closed" THEN Some(<<"loop is closed">>) ELSE None

\* The state guard of checkpoint: the error it returns, if any.
CheckpointGuard(loop) ==
    IF loop.state = "closed" THEN Some(<<"loop is closed">>)
    ELSE IF loop.state # "active"
    THEN Some(<<"loop must be active to checkpoint (current state: ", loop.state, ")">>)
    ELSE None

\* A round tag that is one ahead.
CheckpointRoundNext(loop) == loop.currentRound + 1

\* The round tag of a new checkpoint.
CheckpointRound(loop) == loop.currentRound

\* A canContinue flag that is still set at the round cap.
CanContinueAtCap(recommendation, loop) ==
    recommendation = "continue" /\ loop.currentRound <= loop.maxRounds

\* The canContinue flag of a checkpoint response.
CanContinue(recommendation, loop) ==
    recommendation = "continue" /\ loop.currentRound < loop.maxRounds

\* The checkpoint that is pushed.
CheckpointRecord(round, built, now) ==
    [round |-> round,
     summary |-> built.summary,
     critique |-> built.critique,
     recommendation |-> built.recommendation,
     proposedTasks |-> built.proposedTasks,
     importance |-> built.importance,
     urgency |-> built.urgency,
     confidence |-> built.confidence,
     evidenceQuality |-> built.evidenceQuality,
     citationLinks |-> built.citationLinks,
     counterpoints |-> built.counterpoints,
     whyNow |-> built.whyNow,
     analysisQualityScore |-> built.analysisQualityScore,
     priorityScore |-> built.priorityScore,
     createdAt |-> now]

\* The record after a checkpoint is pushed.
CheckpointApply(old, r, now) ==
    The({[old EXCEPT !.checkpoints = Append(@, checkpoint),
                     !.state = "awaiting_decision",
                     !.updatedAt = now] :
         checkpoint \in {CheckpointRecord(CheckpointRound(old), built, now) :
                            built \in {CheckpointFromParams(r)}}})

\* What a checkpoint that went through leaves and returns.
CheckpointDone(registry, loop, canContinue) ==
    [registry |-> SetLoop(registry, loop.loopId, loop),
     result |-> [status |-> "checkpointed",
                 loop |-> toLoopDetails(loop),
                 canContinue |-> canContinue,
                 spawnAdvice |-> buildSpawnAdvice(loop, canContinue)]]

\* A checkpoint that pushes before it looks at the state of the loop.
CheckpointMutatorPushesFirst(registry, r, now) ==
    LET requesterAgentId == resolveAgentIdFromSessionKey(r.session)
        loopLookup == getLoopOrError(registry, r.loopId, requesterAgentId)
    IN IF ~loopLookup.ok
       THEN [registry |-> registry, result |-> ErrorResult(loopLookup.error)]
       ELSE The({IF IsSome(CheckpointGuard(loopLookup.loop))
                 THEN [registry |-> SetLoop(registry, loop.loopId, loop),
                       result |-> ErrorResult(Get(CheckpointGuard(loopLookup.loop)))]
                 ELSE CheckpointDone(registry, loop,
                                     CanContinue(normalizeRecommendation(r.recommendation),
                                                 loop)) :
                 loop \in {CheckpointApply(loopLookup.loop, r, now)}})

CheckpointMutator(registry, r, now) ==
    LET requesterAgentId == resolveAgentIdFromSessionKey(r.session)
        loopLookup == getLoopOrError(registry, r.loopId, requesterAgentId)
    IN IF ~loopLookup.ok
       THEN [registry |-> registry, result |-> ErrorResult(loopLookup.error)]
       ELSE IF IsSome(CheckpointGuard(loopLookup.loop))
       THEN [registry |-> registry,
             result |-> ErrorResult(Get(CheckpointGuard(loopLookup.loop)))]
       ELSE The({CheckpointDone(registry, loop,
                                CanContinue(normalizeRecommendation(r.recommendation),
                                            loop)) :
                 loop \in {CheckpointApply(loopLookup.loop, r, now)}})

\* A continue guard whose round cap is one round late.
ContinueGuardLateCap(loop) ==
    IF loop.state = "closed" THEN Some(<<"loop is closed">>)
    ELSE IF loop.state # "awaiting_decision"
    THEN Some(<<"loop is not awaiting_decision (current state: ", loop.state, ")">>)
    ELSE IF loop.currentRound > loop.maxRounds
    THEN Some(<<"cannot continue: max rounds reached (", loop.maxRounds, ")">>)
    ELSE None

\* A continue guard without the round cap.
ContinueGuardNoCap(loop) ==
    IF loop.state = "closed" THEN Some(<<"loop is closed">>)
    ELSE IF loop.state # "awaiting_decision"
    THEN Some(<<"loop is not awaiting_decision (current state: ", loop.state, ")">>)
    ELSE None

\* The state and round-cap guard of continue: the error it returns, if any.
ContinueGuard(loop) ==
    IF loop.state = "closed" THEN Some(<<"loop is closed">>)
    ELSE IF loop.state # "awaiting_decision"
    THEN Some(<<"loop is not awaiting_decision (current state: ", loop.state, ")">>)
    ELSE IF loop.currentRound >= loop.maxRounds
    THEN Some(<<"cannot continue: max rounds reached (", loop.maxRounds, ")">>)
    ELSE None

\* A continue that leaves updatedAt as it was.
ContinueApplyKeepsUpdatedAt(old, r, now) ==
    [old EXCEPT !.decisions = Append(@, [round |-> old.currentRound,
                                         decision |-> "continue",
                                         reason |-> readStringParam(r.reason),
                                         createdAt |-> now]),
                !.currentRound = old.currentRound + 1,
                !.state = "active"]

\* A continue that also raises the round cap by one.
ContinueApplyRaisesCap(old, r, now) ==
    [old EXCEPT !.decisions = Append(@, [round |-> old.currentRound,
                                         decision |-> "continue",
                                         reason |-> readStringParam(r.reason),
                                         createdAt |-> now]),
                !.currentRound = old.currentRound + 1,
                !.maxRounds = old.maxRounds + 1,
                !.state = "active",
                !.updatedAt = now]

\* A continue that stays in the round it decided on.
ContinueApplyKeepsRound(old, r, now) ==
    [old EXCEPT !.decisions = Append(@, [round |-> old.currentRound,
                                         decision |-> "continue",
                                         reason |-> readStringParam(r.reason),
                                         createdAt |-> now]),
                !.state = "active",
                !.updatedAt = now]

\* A continue that tags its decision with the round it moves to.
ContinueApplyTagsNewRound(old, r, now) ==
    [old EXCEPT !.decisions = Append(@, [round |-> old.currentRound + 1,
                                         decision |-> "continue",
                                         reason |-> readStringParam(r.reason),
                                         createdAt |-> now]),
                !.currentRound = old.currentRound + 1,
                !.state = "active",
                !.updatedAt = now]

\* The record after a continue decision.
ContinueApply(old, r, now) ==
    LET decisionRound == old.currentRound
    IN [old EXCEPT !.decisions = Append(@, [round |-> decisionRound,
                                            decision |-> "continue",
                                            reason |-> readStringParam(r.reason),
                                            createdAt |-> now]),
                   !.currentRound = decisionRound + 1,
                   !.state = "active",
                   !.updatedAt = now]

ContinueMutator(registry, r, now) ==
    LET requesterAgentId == resolveAgentIdFromSessionKey(r.session)
        loopLookup == getLoopOrError(registry, r.loopId, requesterAgentId)
    IN IF ~loopLookup.ok
       THEN [registry |-> registry, result |-> ErrorResult(loopLookup.error)]
       ELSE IF IsSome(ContinueGuard(loopLookup.loop))
       THEN [registry |-> registry,
             result |-> ErrorResult(Get(ContinueGuard(loopLookup.loop)))]
       ELSE The({[registry |-> SetLoop(registry, loop.loopId, loop),
                  result |-> [status |-> "continued", loop |-> toLoopDetails(loop)]] :
                 loop \in {ContinueApply(loopLookup.loop, r, now)}})

\* A close that records the decision and leaves closedAt unset.
CloseApplyNoClosedAt(old, r, now) ==
    IF old.state # "closed"
    THEN [old EXCEPT !.state = "closed",
                     !.closeReason = readStringParam(r.reason),
                     !.updatedAt = now,
                     !.decisions = Append(@, [round |-> old.currentRound,
                                              decision |-> "close",
                                              reason |-> readStringParam(r.reason),
                                              createdAt |-> now])]
    ELSE old

\* A close that closes again a loop that is already closed.
CloseApplyAgain(old, r, now) ==
    [old EXCEPT !.state = "closed",
                !.closedAt = Some(now),
                !.closeReason = readStringParam(r.reason),
                !.updatedAt = now,
                !.decisions = Append(@, [round |-> old.currentRound,
                                         decision |-> "close",
                                         reason |-> readStringParam(r.reason),
                                         createdAt |-> now])]

\* The record after close: a loop that is already closed is left as it is.
CloseApply(old, r, now) ==
    LET reason == readStringParam(r.reason)
    IN IF old.state # "closed"
       THEN [old EXCEPT !.state = "closed",
                        !.closedAt = Some(now),
                        !.closeReason = reason,
                        !.updatedAt = now,
                        !.decisions = Append(@, [round |-> old.currentRound,
                                                 decision |-> "close",
                                                 reason |-> reason,
                                                 createdAt |-> now])]
       ELSE old

CloseMutator(registry, r, now) ==
    LET requesterAgentId == resolveAgentIdFromSessionKey(r.session)
        loopLookup == getLoopOrError(registry, r.loopId, requesterAgentId)
    IN IF ~loopLookup.ok
       THEN [registry |-> registry, result |-> ErrorResult(loopLookup.error)]
       ELSE The({[registry |-> SetLoop(registry, loop.loopId, loop),
                  result |-> [status |-> "closed", loop |-> toLoopDetails(loop)]] :
                 loop \in {CloseApply(loopLookup.loop, r, now)}})

-----------------------------------------------------------------------------
(* research-loop tool: status and list, which read the file without the lock *)

\* Array.from(map.values()): the records in insertion order.
Values(registry) ==
    LET ids == DOMAIN registry
        rank(id) == Cardinality({other \in ids : other < id})
    IN [k \in 1..Cardinality(ids) |-> registry[CHOOSE id \in ids : rank(id) = k - 1]]

\* Array.prototype.sort with a comparator: a stable sort.
StableSort(s, Compare(_, _)) ==
    LET n == Len(s)
        rank(i) == Cardinality({j \in 1..n : \/ Compare(s[j], s[i]) < 0
                                             \/ Compare(s[j], s[i]) = 0 /\ j < i})
    IN [k \in 1..n |-> s[CHOOSE i \in 1..n : rank(i) = k - 1]]

\* A hot view that sorts by recency alone.
HotCompareByRecency(a, b) == b.updatedAt - a.updatedAt

\* The comparator of the hot view.
HotCompare(a, b) ==
    LET scoreDelta == resolveLatestPriorityScore(b) - resolveLatestPriorityScore(a)
        qualityDelta ==
            resolveLatestAnalysisQualityScore(b) - resolveLatestAnalysisQualityScore(a)
    IN IF scoreDelta # 0 THEN scoreDelta
       ELSE IF qualityDelta # 0 THEN qualityDelta
       ELSE b.updatedAt - a.updatedAt

\* A comparator that puts the oldest update first.
RecencyCompareAscending(a, b) == a.updatedAt - b.updatedAt

\* The comparator of every other view.
RecencyCompare(a, b) == b.updatedAt - a.updatedAt

\* A list that does not filter by owner.
OwnedLoopsUnfiltered(registry, requesterAgentId) == Values(registry)

\* The requester's loops: the ownership filter of list.
OwnedLoops(registry, requesterAgentId) ==
    SelectSeq(Values(registry), LAMBDA loop : loop.ownerAgentId = requesterAgentId)

\* The projection of one loop in a list response.
ListEntry(loop) ==
    LET lastCheckpoint == LastCheckpoint(loop)
    IN [loopId |-> loop.loopId,
        topic |-> loop.topic,
        state |-> loop.state,
        currentRound |-> loop.currentRound,
        maxRounds |-> loop.maxRounds,
        priority |-> loop.priority,
        updatedAt |-> loop.updatedAt,
        lastCheckpointAt |->
            IF IsSome(lastCheckpoint) THEN Some(Get(lastCheckpoint).createdAt) ELSE None,
        lastRecommendation |->
            IF IsSome(lastCheckpoint) THEN Some(Get(lastCheckpoint).recommendation) ELSE None,
        lastAnalysisQualityScore |->
            IF IsSome(lastCheckpoint) THEN Get(lastCheckpoint).analysisQualityScore ELSE None,
        lastCitationCount |->
            IF IsSome(lastCheckpoint) THEN OptLen(Get(lastCheckpoint).citationLinks) ELSE 0,
        lastPriorityScore |->
            IF IsSome(lastCheckpoint) THEN Get(lastCheckpoint).priorityScore ELSE None,
        needsReview |-> checkpointNeedsReview(loop)]

StatusAction(registry, r) ==
    LET requesterAgentId == resolveAgentIdFromSessionKey(r.session)
        loopLookup == getLoopOrError(registry, r.loopId, requesterAgentId)
    IN IF ~loopLookup.ok THEN ErrorResult(loopLookup.error)
       ELSE [status |-> "ok", loop |-> toLoopDetails(loopLookup.loop)]

ListAction(registry, r, now) ==
    LET requesterAgentId == resolveAgentIdFromSessionKey(r.session)
        state == normalizeStateFilter(r.state)
        view == normalizeListView(r.view)
        staleHours == normalizeStaleHours(r.staleHours)
        limit == normalizeLimit(r.limit)
        staleCutoff == now - staleHours * MsPerHour
        owned == OwnedLoops(registry, requesterAgentId)
        inState == IF IsSome(state)
                   THEN SelectSeq(owned, LAMBDA loop : loop.state = Get(state))
                   ELSE owned
        inView ==
            IF view = "needs_decision"
            THEN SelectSeq(inState, LAMBDA loop : loop.state = "awaiting_decision")
            ELSE IF view = "needs_review"
            THEN SelectSeq(inState, LAMBDA loop : loop.state = "awaiting_decision"
                                                  /\ checkpointNeedsReview(loop))
            ELSE IF view = "hot"
            THEN SelectSeq(inState, LAMBDA loop : loop.state = "awaiting_decision")
            ELSE IF view = "stale"
            THEN SelectSeq(inState, LAMBDA loop : loop.state = "active"
                                                  /\ loop.updatedAt <= staleCutoff)
            ELSE inState
        sorted == IF view = "hot" THEN StableSort(inView, HotCompare)
                  ELSE StableSort(inView, RecencyCompare)
    IN [status |-> "ok", loops |-> MapSeq(Slice(sorted, limit), ListEntry)]

-----------------------------------------------------------------------------
(* research-loop tool: execute *)

MutatingActions == {"start", "checkpoint", "continue", "close"}
ReadActions == {"status", "list"}

\* What execute answers without touching the registry: a missing required
\* parameter throws and the catch of execute turns the message into an error
\* result; an action that matches no branch is unsupported.
EarlyError(r) ==
    IF ~IsSome(readStringParam(r.action)) THEN Some(<<"action required">>)
    ELSE LET action == Get(r.action)
         IN IF action = "start"
            THEN IF IsSome(readStringParam(r.topic)) THEN None
                 ELSE Some(<<"topic required">>)
            ELSE IF action = "checkpoint"
            THEN IF ~IsSome(r.loopId) THEN Some(<<"loopId required">>)
                 ELSE IF ~IsSome(readTextParam(r.summary)) THEN Some(<<"summary required">>)
                 ELSE None
            ELSE IF action \in {"continue", "status", "close"}
            THEN IF ~IsSome(r.loopId) THEN Some(<<"loopId required">>) ELSE None
            ELSE IF action = "list" THEN None
            ELSE Some(<<"unsupported action: ", action>>)

\* The mutator of a mutating request.
Mutate(registry, r, now, loopId) ==
    IF Get(r.action) = "start" THEN StartMutator(registry, r, now, loopId)
    ELSE IF Get(r.action) = "checkpoint" THEN CheckpointMutator(registry, r, now)
    ELSE IF Get(r.action) = "continue" THEN ContinueMutator(registry, r, now)
    ELSE CloseMutator(registry, r, now)

\* updateResearchLoopRegistry when the lock is free: load, mutate, save.
\* The Map is loaded once and handed to the mutator; what the mutator
\* leaves in it is saved, whatever the result.
updateResearchLoopRegistry(stored, r, now, loopId) ==
    The({[file |-> SavedFile(out.registry), result |-> out.result] :
         out \in {Mutate(loaded, r, now, loopId) :
                     loaded \in {loadResearchLoopRegistryFromDisk(stored)}}})

\* A read-only request.
ReadOnly(stored, r, now) ==
    IF Get(r.action) = "status"
    THEN StatusAction(loadResearchLoopRegistryFromDisk(stored), r)
    ELSE ListAction(loadResearchLoopRegistryFromDisk(stored), r, now)

\* An execute whose status and list save the registry they loaded.
ExecuteSavesReads(stored, r, now, loopId) ==
    IF IsSome(EarlyError(r))
    THEN [file |-> stored, result |-> ErrorResult(Get(EarlyError(r)))]
    ELSE IF Get(r.action) \in MutatingActions
    THEN updateResearchLoopRegistry(stored, r, now, loopId)
    ELSE [file |-> SavedFile(loadResearchLoopRegistryFromDisk(stored)),
          result |-> ReadOnly(stored, r, now)]

\* execute, run to completion with no other operation in flight.
Execute(stored, r, now, loopId) ==
    IF IsSome(EarlyError(r))
    THEN [file |-> stored, result |-> ErrorResult(Get(EarlyError(r)))]
    ELSE IF Get(r.action) \in MutatingActions
    THEN updateResearchLoopRegistry(stored, r, now, loopId)
    ELSE [file |-> stored, result |-> ReadOnly(stored, r, now)]

-----------------------------------------------------------------------------
(* The requests the model issues *)

Sessions == {Some(<<"agent", "alpha", "main">>), Some(<<"agent", "beta", "main">>)}
LoopIds == 1..MaxLoops
MaxRoundsInputs == {None} \cup {Some(n) : n \in 0..MaxRoundsIn}
Reasons == {None, Some("done")}

NoParams ==
    [action |-> None, session |-> None, loopId |-> None, topic |-> None,
     maxRounds |-> None, priority |-> None, summary |-> None, critique |-> None,
     recommendation |-> None, proposedTasks |-> None, importance |-> None,
     urgency |-> None, confidence |-> None, evidenceQuality |-> None,
     citationLinks |-> None, counterpoints |-> None, whyNow |-> None,
     reason |-> None, state |-> None, view |-> None, limit |-> None,
     staleHours |-> None]

Request(action, session, loopId) ==
    [NoParams EXCEPT !.action = Some(action), !.session = session, !.loopId = loopId]

\* A thin checkpoint that recommends to continue.
ThinCheckpoint(r) ==
    [r EXCEPT !.summary = Some(<<"s", "1">>), !.recommendation = Some("continue")]

\* A well-evidenced checkpoint with no recommendation.
RichCheckpoint(r) ==
    [r EXCEPT !.summary = Some(<<" ">> \o Chars(20)),
              !.critique = Some(Chars(3)),
              !.proposedTasks = Some(<<Chars(2), <<" ">>, Chars(3)>>),
              !.importance = Some(5),
              !.urgency = Some(6),
              !.confidence = Some(3),
              !.evidenceQuality = Some(4),
              !.citationLinks = Some(<<Chars(4), Chars(5), Chars(6)>>),
              !.counterpoints = Some(<<Chars(3)>>),
              !.whyNow = Some(Chars(3))]

StartRequests ==
    {[Request("start", s, None) EXCEPT !.topic = t, !.maxRounds = m] :
        s \in Sessions, t \in {Some("M")}, m \in MaxRoundsInputs}
    \cup {Request("start", s, None) : s \in Sessions}

CheckpointRequests ==
    {ThinCheckpoint(Request("checkpoint", s, id)) : s \in Sessions, id \in {Some(i) : i \in LoopIds}}
    \cup {RichCheckpoint(Request("checkpoint", s, id)) :
            s \in Sessions, id \in {Some(i) : i \in LoopIds}}
    \cup {ThinCheckpoint(Request("checkpoint", s, None)) : s \in Sessions}
    \cup {Request("checkpoint", s, Some(1)) : s \in Sessions}

ContinueRequests ==
    {Request("continue", s, id) : s \in Sessions, id \in {None} \cup {Some(i) : i \in LoopIds}}

CloseRequests ==
    {[Request("close", s, id) EXCEPT !.reason = why] :
        s \in Sessions, id \in {None} \cup {Some(i) : i \in LoopIds}, why \in Reasons}

StatusRequests ==
    {Request("status", s, id) : s \in Sessions, id \in {None} \cup {Some(i) : i \in LoopIds}}

ListRequestsOf(views, states, limits) ==
    {[Request("list", s, None) EXCEPT !.view = v, !.state = st, !.limit = n] :
        s \in Sessions, v \in views, st \in states, n \in limits}

\* The list requests the model issues, and the larger set the properties of
\* list range over (list changes nothing, so every such request is a step
\* that leaves the state as it is).
ListRequests ==
    ListRequestsOf({None} \cup {Some(w) : w \in LoopViews}, {None}, {None})

AllListRequests ==
    ListRequestsOf({None, Some("recent")} \cup {Some(w) : w \in LoopViews},
                   {None, Some("open")} \cup {Some(w) : w \in LoopStates},
                   {None, Some(1)})

UnsupportedRequests == {Request("purge", s, Some(1)) : s \in Sessions}

-----------------------------------------------------------------------------
(* Specification Spec: operations executed one at a time *)

Procs == 1..NumProcs

Init ==
    /\ file = None
    /\ lock = None
    /\ clock = 0
    /\ issued = 0
    /\ pc = [p \in Procs |-> "idle"]
    /\ req = [p \in Procs |-> NoParams]
    /\ startedAt = [p \in Procs |-> 0]
    /\ runs = [p \in Procs |-> EmptyRegistry]
    /\ res = [p \in Procs |-> None]
    /\ ops = 0
    /\ loadedFrom = [p \in Procs |-> None]

procVars == <<pc, req, startedAt, runs, res, ops, loadedFrom>>

\* The mutations a document records: one per loop started, per checkpoint
\* and per decision.
RECURSIVE SumSeq(_)
SumSeq(s) == IF s = <<>> THEN 0 ELSE Head(s) + SumSeq(Tail(s))

Mutations(stored) ==
    SumSeq(MapSeq(Values(loadResearchLoopRegistryFromDisk(stored)),
                  LAMBDA loop : 1 + Len(loop.checkpoints) + Len(loop.decisions)))

\* One execute from call to return, with no other operation in flight; the
\* identifier a start would draw is the next unused one.  The response goes
\* to the caller: it is Execute(file, r, clock, issued + 1).result.
Do(r) ==
    \E out \in {Execute(file, r, clock, issued + 1)} :
        /\ out.file # file => Mutations(out.file) <= MaxMutations
        /\ file' = out.file
        /\ issued' = IF out.result.status = "started" THEN issued + 1 ELSE issued
        /\ UNCHANGED <<lock, clock>>
        /\ UNCHANGED procVars

\* execute dispatches on the action of the request.
Start == \E r \in StartRequests : issued < MaxLoops /\ r.action = Some("start") /\ Do(r)
Checkpoint == \E r \in CheckpointRequests : r.action = Some("checkpoint") /\ Do(r)
Continue == \E r \in ContinueRequests : r.action = Some("continue") /\ Do(r)
Close == \E r \in CloseRequests : r.action = Some("close") /\ Do(r)
Status == \E r \in StatusRequests : r.action = Some("status") /\ Do(r)
List == \E r \in ListRequests : r.action = Some("list") /\ Do(r)
Unsupported ==
    \E r \in UnsupportedRequests :
        r.action \notin {Some(a) : a \in MutatingActions \cup ReadActions} /\ Do(r)

\* Time passes.
Tick ==
    /\ clock < MaxTicks * TickMs
    /\ clock' = clock + TickMs
    /\ UNCHANGED <<file, lock, issued>>
    /\ UNCHANGED procVars

Next ==
    \/ Start
    \/ Checkpoint
    \/ Continue
    \/ Close
    \/ Status
    \/ List
    \/ Unsupported
    \/ Tick

Spec == Init /\ [][Next]_vars

-----------------------------------------------------------------------------
(* Specification SpecLock: operations of several processes (or several     *)
(* in-flight calls of one process), step by step: mutating operations      *)
(* contend for the lock file and write through a temp file, status and     *)
(* list read the file without the lock, and file-system calls may fail.    *)
(*                                                                         *)
(* pc of a process:                                                        *)
(*   idle    no call in flight                                             *)
(*   open    in the acquisition loop, about to open(lockPath, "wx")        *)
(*   stat    open failed with EEXIST and the timeout has not passed        *)
(*   unlink  the lock file it saw was stale; about to unlink(lockPath)     *)
(*   locked  it created the lock file; about to call fn()                  *)
(*   write   the mutator has run on the loaded registry; about to write    *)
(*           the temp file                                                 *)
(*   rename  the temp file holds the document; about to rename it          *)
(*   chmod   the document is in place; about to chmod it                   *)
(*   release fn() has returned or thrown; about to unlink(lockPath)        *)
(*   done    execute has returned res                                      *)
(* The poll sleep (25 ms) is below the resolution of the clock, so a       *)
(* contender that sleeps is back at open with the clock where it was or    *)
(* later.                                                                  *)

LockSession == Some(<<"agent", "alpha", "main">>)

LockRequests ==
    {[Request("start", LockSession, None) EXCEPT !.topic = Some("M")]}
    \cup {ThinCheckpoint(Request("checkpoint", LockSession, Some(id))) : id \in LoopIds}
    \cup {Request("continue", LockSession, Some(id)) : id \in LoopIds}
    \cup {Request("close", LockSession, Some(id)) : id \in LoopIds}

\* Requests that fail validation, and the read-only requests.
LockBadRequests ==
    {Request("start", LockSession, None), Request("purge", LockSession, Some(1)),
     Request("continue", LockSession, None)}
LockReadRequests ==
    {Request("status", LockSession, Some(1)), Request("list", LockSession, None)}

LockTimeoutError == <<"timeout acquiring research loop registry lock: ", "loops.json.lock">>

\* The message of a file-system call that failed.
IoError(call) == <<"EIO: ", call>>

\* A catch that lets the exception through to the caller.
Uncaught(message) == [thrown |-> message]

\* The catch of execute: the message of the exception in an envelope.
Caught(message) == ErrorResult(message)

\* A timeout test that never fires.
TimedOutNever(p) == FALSE

\* The timeout test of the acquisition loop.
TimedOut(p) == clock - startedAt[p] > DefaultTimeoutMs

\* A write path that always writes the registry file in place.
IsWin32Always == TRUE

\* process.platform === "win32": the registry file is written in place.
IsWin32 == FALSE

\* What a reader finds while a write in place is under way: no parseable
\* document (loadJsonFile then yields nothing, and the registry is empty).
TornDocument == [version |-> 0, loops |-> EmptyRegistry]

\* Starts that are in flight and have not drawn their identifier yet.
PendingStarts ==
    Cardinality({p \in Procs : pc[p] \in {"open", "stat", "unlink", "locked"}
                               /\ req[p].action = Some("start")})

\* execute is called with a mutating request: the required parameters are
\* there, and withResearchLoopRegistryLock notes startedAt.
Issue(p) ==
    /\ pc[p] = "idle"
    /\ ops < MaxOps
    /\ \E r \in LockRequests :
        /\ r.action = Some("start") => issued + PendingStarts < MaxLoops
        /\ req' = [req EXCEPT ![p] = r]
    /\ pc' = [pc EXCEPT ![p] = "open"]
    /\ startedAt' = [startedAt EXCEPT ![p] = clock]
    /\ res' = [res EXCEPT ![p] = None]
    /\ ops' = ops + 1
    /\ UNCHANGED <<file, lock, clock, issued, runs, loadedFrom>>

\* execute is called with a request that fails validation: readStringParam
\* throws, or the action is not supported.
Reject(p) ==
    /\ pc[p] = "idle"
    /\ ops < MaxOps
    /\ \E r \in LockBadRequests :
        /\ req' = [req EXCEPT ![p] = r]
        /\ res' = [res EXCEPT ![p] = Some(Caught(Get(EarlyError(r))))]
    /\ pc' = [pc EXCEPT ![p] = "done"]
    /\ ops' = ops + 1
    /\ UNCHANGED <<file, lock, clock, issued, startedAt, runs, loadedFrom>>

\* execute is called with status or list: one synchronous load of the
\* file, without the lock.
Read(p) ==
    /\ pc[p] = "idle"
    /\ ops < MaxOps
    /\ \E r \in LockReadRequests :
        \E out \in {Execute(file, r, clock, issued + 1)} :
            /\ req' = [req EXCEPT ![p] = r]
            /\ res' = [res EXCEPT ![p] = Some(out.result)]
            /\ file' = out.file
    /\ pc' = [pc EXCEPT ![p] = "done"]
    /\ ops' = ops + 1
    /\ UNCHANGED <<lock, clock, issued, startedAt, runs, loadedFrom>>

\* fs.promises.open(lockPath, "wx"), and on EEXIST the timeout check.
Open(p) ==
    /\ pc[p] = "open"
    /\ IF ~IsSome(lock)
       THEN /\ lock' = Some([owner |-> p, mtime |-> clock])
            /\ pc' = [pc EXCEPT ![p] = "locked"]
            /\ res' = res
       ELSE IF TimedOut(p)
       THEN /\ res' = [res EXCEPT ![p] = Some(Caught(LockTimeoutError))]
            /\ pc' = [pc EXCEPT ![p] = "done"]
            /\ lock' = lock
       ELSE /\ pc' = [pc EXCEPT ![p] = "stat"]
            /\ UNCHANGED <<lock, res>>
    /\ UNCHANGED <<file, clock, issued, req, startedAt, runs, ops, loadedFrom>>

\* open fails with an error other than EEXIST (there is no lock file, and
\* none can be created): the error is rethrown, and no lock is held.
OpenFails(p) ==
    /\ pc[p] = "open"
    /\ ~IsSome(lock)
    /\ res' = [res EXCEPT ![p] = Some(Caught(IoError("open")))]
    /\ pc' = [pc EXCEPT ![p] = "done"]
    /\ UNCHANGED <<file, lock, clock, issued, req, startedAt, runs, ops, loadedFrom>>

\* A staleness test that never finds the lock file stale.
StatNeverStale(p) ==
    /\ pc[p] = "stat"
    /\ pc' = [pc EXCEPT ![p] = "open"]
    /\ UNCHANGED <<file, lock, clock, issued, req, startedAt, runs, res, ops, loadedFrom>>

\* fs.promises.stat(lockPath) and the staleness test; a failing stat is
\* ignored and the contender sleeps and retries.
Stat(p) ==
    /\ pc[p] = "stat"
    /\ pc' = [pc EXCEPT ![p] =
                 IF IsSome(lock) /\ clock - Get(lock).mtime > DefaultStaleMs
                 THEN "unlink" ELSE "open"]
    /\ UNCHANGED <<file, lock, clock, issued, req, startedAt, runs, res, ops, loadedFrom>>

\* fs.promises.unlink(lockPath) of the stale branch: it removes the lock
\* file that is there now; when there is none the error is ignored and the
\* contender sleeps and retries.
UnlinkStale(p) ==
    /\ pc[p] = "unlink"
    /\ lock' = None
    /\ pc' = [pc EXCEPT ![p] = "open"]
    /\ UNCHANGED <<file, clock, issued, req, startedAt, runs, res, ops, loadedFrom>>

\* fn(): loadResearchLoopRegistryFromDisk and the mutator, which run
\* without a suspension point between them.
Enter(p) ==
    /\ pc[p] = "locked"
    /\ \E out \in {Mutate(loadResearchLoopRegistryFromDisk(file), req[p], clock, issued + 1)} :
        /\ runs' = [runs EXCEPT ![p] = out.registry]
        /\ res' = [res EXCEPT ![p] = Some(out.result)]
        /\ issued' = IF out.result.status = "started" THEN issued + 1 ELSE issued
    /\ loadedFrom' = [loadedFrom EXCEPT ![p] = Some(file)]
    /\ pc' = [pc EXCEPT ![p] = "write"]
    /\ UNCHANGED <<file, lock, clock, req, startedAt, ops>>

\* saveResearchLoopRegistryUnlocked, first write: writeFile of the temp
\* file; on win32 the start of the writeFile of the registry file itself.
WriteTemp(p) ==
    /\ pc[p] = "write"
    /\ file' = IF IsWin32 THEN Some(TornDocument) ELSE file
    /\ pc' = [pc EXCEPT ![p] = "rename"]
    /\ UNCHANGED <<lock, clock, issued, req, startedAt, runs, res, ops, loadedFrom>>

\* The call of a save that fails: fn() throws the error, which replaces the
\* mutator's result.
SaveFails(p, call) ==
    /\ res' = [res EXCEPT ![p] = Some(Caught(IoError(call)))]
    /\ runs' = [runs EXCEPT ![p] = EmptyRegistry]
    /\ pc' = [pc EXCEPT ![p] = "release"]
    /\ UNCHANGED <<lock, clock, issued, req, startedAt, ops, loadedFrom>>

\* mkdir or the writeFile of the temp file fails.
WriteTempFails(p) ==
    /\ pc[p] = "write"
    /\ file' = IF IsWin32 THEN Some(TornDocument) ELSE file
    /\ SaveFails(p, "writeFile")

\* rename(tmp, pathname): the document replaces the registry file; on
\* win32 the end of the writeFile of the registry file.
Rename(p) ==
    /\ pc[p] = "rename"
    /\ file' = SavedFile(runs[p])
    /\ runs' = [runs EXCEPT ![p] = EmptyRegistry]
    /\ pc' = [pc EXCEPT ![p] = IF IsWin32 THEN "release" ELSE "chmod"]
    /\ UNCHANGED <<lock, clock, issued, req, startedAt, res, ops, loadedFrom>>

\* rename fails: the registry file stays as it is.
RenameFails(p) ==
    /\ pc[p] = "rename"
    /\ ~IsWin32
    /\ file' = file
    /\ SaveFails(p, "rename")

\* chmod(pathname, 0o600), and the rm of the temp file, which is gone.
Chmod(p) ==
    /\ pc[p] = "chmod"
    /\ pc' = [pc EXCEPT ![p] = "release"]
    /\ UNCHANGED <<file, lock, clock, issued, req, startedAt, runs, res, ops, loadedFrom>>

\* chmod fails, after the rename has put the document in place.
ChmodFails(p) ==
    /\ pc[p] = "chmod"
    /\ file' = file
    /\ SaveFails(p, "chmod")

\* The finally of withResearchLoopRegistryLock: unlink(lockPath), errors
\* swallowed; execute then returns the mutator's result or the envelope of
\* the error.
Release(p) ==
    /\ pc[p] = "release"
    /\ lock' = None
    /\ pc' = [pc EXCEPT ![p] = "done"]
    /\ UNCHANGED <<file, clock, issued, req, startedAt, runs, res, ops, loadedFrom>>

\* The caller has its response and may call again; nothing of the call
\* is kept.
Finish(p) ==
    /\ pc[p] = "done"
    /\ ops < MaxOps
    /\ pc' = [pc EXCEPT ![p] = "idle"]
    /\ req' = [req EXCEPT ![p] = NoParams]
    /\ startedAt' = [startedAt EXCEPT ![p] = 0]
    /\ res' = [res EXCEPT ![p] = None]
    /\ loadedFrom' = [loadedFrom EXCEPT ![p] = None]
    /\ UNCHANGED <<file, lock, clock, issued, runs, ops>>

\* Time passes while processes contend.
LockTick ==
    /\ clock < MaxLockTicks * TickMs
    /\ clock' = clock + TickMs
    /\ UNCHANGED <<file, lock, issued>>
    /\ UNCHANGED procVars

LockNext ==
    \/ \E p \in Procs : Issue(p)
    \/ \E p \in Procs : Reject(p)
    \/ \E p \in Procs : Read(p)
    \/ \E p \in Procs : Open(p)
    \/ \E p \in Procs : OpenFails(p)
    \/ \E p \in Procs : Stat(p)
    \/ \E p \in Procs : UnlinkStale(p)
    \/ \E p \in Procs : Enter(p)
    \/ \E p \in Procs : WriteTemp(p)
    \/ \E p \in Procs : WriteTempFails(p)
    \/ \E p \in Procs : Rename(p)
    \/ \E p \in Procs : RenameFails(p)
    \/ \E p \in Procs : Chmod(p)
    \/ \E p \in Procs : ChmodFails(p)
    \/ \E p \in Procs : Release(p)
    \/ \E p \in Procs : Finish(p)
    \/ LockTick

SpecLock == Init /\ [][LockNext]_vars

-----------------------------------------------------------------------------
(* Specification SpecAbandoned: the step-by-step operations of SpecLock    *)
(* on a store whose lock file was left behind at time 0 by an operation    *)
(* that ended without its release (a killed process).  File-system calls   *)
(* succeed and take far less than the timeout (10 s) and the stale         *)
(* threshold (30 s): the clock advances only while no operation is on its  *)
(* way, that is while every operation in flight polls a lock file that is  *)
(* there and not stale.  An operation in flight takes its next step        *)
(* eventually, and time passes eventually.                                 *)

\* No process: the creator of the abandoned lock file is gone.
Nobody == 0

InitAbandoned ==
    /\ file = None
    /\ lock = Some([owner |-> Nobody, mtime |-> 0])
    /\ clock = 0
    /\ issued = 0
    /\ pc = [p \in Procs |-> "idle"]
    /\ req = [p \in Procs |-> NoParams]
    /\ startedAt = [p \in Procs |-> 0]
    /\ runs = [p \in Procs |-> EmptyRegistry]
    /\ res = [p \in Procs |-> None]
    /\ ops = 0
    /\ loadedFrom = [p \in Procs |-> None]

\* Process p has no call in flight, or sleeps between two polls of a lock
\* file it has to wait for.
Waits(p) ==
    \/ pc[p] \in {"idle", "done"}
    \/ /\ pc[p] \in {"open", "stat"}
       /\ IsSome(lock)
       /\ clock - Get(lock).mtime <= DefaultStaleMs

\* Time passes while the operations in flight sleep (setTimeout of the
\* poll interval).
Sleep ==
    /\ \A p \in Procs : Waits(p)
    /\ LockTick

\* The next step of the operation of process p, when file-system calls
\* succeed.
Step(p) ==
    \/ Open(p)
    \/ Stat(p)
    \/ UnlinkStale(p)
    \/ Enter(p)
    \/ WriteTemp(p)
    \/ Rename(p)
    \/ Chmod(p)
    \/ Release(p)

AbandonedNext ==
    \/ \E p \in Procs : Issue(p)
    \/ \E p \in Procs : Step(p)
    \/ \E p \in Procs : Finish(p)
    \/ Sleep

SpecAbandoned ==
    /\ InitAbandoned
    /\ [][AbandonedNext]_vars
    /\ \A p \in Procs : WF_vars(Step(p))
    /\ WF_vars(Sleep)

-----------------------------------------------------------------------------
(* Specification SpecStored: operations executed one at a time on a        *)
(* registry file that was there before the first of them: no file, a file  *)
(* that does not parse, a document of another version, and version-1       *)
(* documents written by hand or by another build, whose values are out of  *)
(* the ranges this tool writes.  Between operations up to a day passes.    *)

\* A record as a start of agent alpha at time 0 leaves it.
StoredLoop(id) ==
    [loopId |-> id,
     topic |-> "M",
     ownerAgentId |-> "alpha",
     state |-> "active",
     currentRound |-> 1,
     maxRounds |-> 2,
     priority |-> "normal",
     createdAt |-> 0,
     updatedAt |-> 0,
     startedBySessionKey |-> Some(<<"agent", "alpha", "main">>),
     closedAt |-> None,
     closeReason |-> None,
     checkpoints |-> <<>>,
     decisions |-> <<>>]

\* A checkpoint with nothing but a summary.
StoredCheckpoint ==
    [round |-> 1,
     summary |-> <<"s", "1">>,
     critique |-> None,
     recommendation |-> "needs_input",
     proposedTasks |-> None,
     importance |-> None,
     urgency |-> None,
     confidence |-> None,
     evidenceQuality |-> None,
     citationLinks |-> None,
     counterpoints |-> None,
     whyNow |-> None,
     analysisQualityScore |-> None,
     priorityScore |-> None,
     createdAt |-> 0]

\* Ratings and scores out of range, and a priority score that is not the
\* product of the ratings.
OffScaleCheckpoint ==
    [StoredCheckpoint EXCEPT !.importance = Number(9),
                             !.urgency = Half(2),
                             !.confidence = Number(0),
                             !.evidenceQuality = Number(-1),
                             !.analysisQualityScore = Half(100),
                             !.priorityScore = Number(999)]

\* Texts one character longer than the cap, with a space at the cap.
LongText(cap) == Chars(cap - 1) \o <<" ", "y">>
LongTextCheckpoint ==
    [StoredCheckpoint EXCEPT !.whyNow = Some(LongText(MaxWhyNowChars)),
                             !.proposedTasks = Some(<<LongText(MaxTaskChars)>>)]

DocumentOf(loop) == Some([version |-> REGISTRY_VERSION, loops |-> [id \in {1} |-> loop]])

StoredFiles ==
    {None,
     Some(TornDocument),
     Some([version |-> 2, loops |-> [id \in {1} |-> StoredLoop(1)]]),
     DocumentOf([StoredLoop(1) EXCEPT !.maxRounds = 50]),
     DocumentOf([StoredLoop(1) EXCEPT !.state = "awaiting_decision",
                                      !.checkpoints = <<OffScaleCheckpoint>>]),
     DocumentOf([StoredLoop(1) EXCEPT !.state = "awaiting_decision",
                                      !.checkpoints = <<LongTextCheckpoint>>])}

\* The identifiers in use: a start draws one that no stored record has.
InitStored ==
    /\ file \in StoredFiles
    /\ lock = None
    /\ clock = 0
    /\ issued = IF file \in {None, Some(TornDocument)} THEN 0 ELSE 1
    /\ pc = [p \in Procs |-> "idle"]
    /\ req = [p \in Procs |-> NoParams]
    /\ startedAt = [p \in Procs |-> 0]
    /\ runs = [p \in Procs |-> EmptyRegistry]
    /\ res = [p \in Procs |-> None]
    /\ ops = 0
    /\ loadedFrom = [p \in Procs |-> None]

\* A day passes.
Age ==
    /\ clock < MaxAges * DefaultStaleHours * MsPerHour
    /\ clock' = clock + DefaultStaleHours * MsPerHour
    /\ UNCHANGED <<file, lock, issued>>
    /\ UNCHANGED procVars

NextStored ==
    \/ Start
    \/ Checkpoint
    \/ Continue
    \/ Close
    \/ Status
    \/ List
    \/ Unsupported
    \/ Tick
    \/ Age

SpecStored == InitStored /\ [][NextStored]_vars

-----------------------------------------------------------------------------
(* Specification SpecCheckpoint: one checkpoint call of agent alpha on a   *)
(* registry that holds one active loop of that agent, with the inputs of   *)
(* the call drawn from grids around the tiers of the quality score and the *)
(* conditions of the spawn advice.  The call and its response are kept in  *)
(* req[1] and res[1].                                                      *)

\* n texts.
Texts(n) == IF n = 0 THEN None ELSE Some([i \in 1..n |-> Chars(2)])

\* The registry file after one start of alpha with this priority and cap.
StartedFile(priority, maxRounds) ==
    DocumentOf([StoredLoop(1) EXCEPT !.priority = priority, !.maxRounds = maxRounds])

StartedFiles == {StartedFile(priority, m) : priority \in {"normal", "high"}, m \in {1, 2}}

\* Inputs around each tier of the quality score.
ScoreGrid ==
    {[Request("checkpoint", LockSession, Some(1)) EXCEPT
          !.summary = Some(Chars(len)),
          !.critique = critique,
          !.citationLinks = Texts(cites),
          !.counterpoints = Texts(counters),
          !.proposedTasks = Texts(tasks),
          !.evidenceQuality = quality,
          !.whyNow = whyNow] :
        len \in {1, 19, 20, 39, 40, 79, 80, 159, 160},
        critique \in {None, Some(Chars(3))},
        cites \in {0, 1, 3},
        counters \in {0, 1, 2},
        tasks \in {0, 1, 2},
        quality \in {None, Number(1), Half(4), Number(9)},
        whyNow \in {None, Some(Chars(3))}}

\* Inputs around each condition of the spawn advice.
AdviceGrid ==
    {[Request("checkpoint", LockSession, Some(1)) EXCEPT
          !.summary = Some(Chars(len)),
          !.critique = critique,
          !.citationLinks = Texts(cites),
          !.proposedTasks = Texts(tasks),
          !.evidenceQuality = quality,
          !.recommendation = recommendation,
          !.confidence = confidence,
          !.importance = rating[1],
          !.urgency = rating[2]] :
        len \in {1, 20, 80, 160},
        critique \in {None, Some(Chars(3))},
        cites \in {0, 1},
        tasks \in {0, 1, 2},
        quality \in {None, Number(1)},
        recommendation \in {None, Some("continue"), Some("stop")},
        confidence \in {None, Number(3), Half(3), Number(4)},
        rating \in {<<None, None>>, <<Number(3), Number(4)>>,
                    <<Number(2), Number(5)>>, <<Number(4), None>>}}

InitCheckpoint ==
    /\ file \in StartedFiles
    /\ lock = None
    /\ clock = 0
    /\ issued = 1
    /\ pc = [p \in Procs |-> "idle"]
    /\ req = [p \in Procs |-> NoParams]
    /\ startedAt = [p \in Procs |-> 0]
    /\ runs = [p \in Procs |-> EmptyRegistry]
    /\ res = [p \in Procs |-> None]
    /\ ops = 0
    /\ loadedFrom = [p \in Procs |-> None]

\* execute with action checkpoint, from call to return.
CheckpointCall ==
    /\ pc[1] = "idle"
    /\ \E r \in IF file = StartedFile("normal", 2) THEN ScoreGrid \cup AdviceGrid
                ELSE AdviceGrid :
        \E out \in {Execute(file, r, clock, issued + 1)} :
            /\ r.action = Some("checkpoint")
            /\ file' = out.file
            /\ req' = [req EXCEPT ![1] = r]
            /\ res' = [res EXCEPT ![1] = Some(out.result)]
    /\ pc' = [pc EXCEPT ![1] = "done"]
    /\ UNCHANGED <<lock, clock, issued, startedAt, runs, ops, loadedFrom>>

SpecCheckpoint == InitCheckpoint /\ [][CheckpointCall]_vars

-----------------------------------------------------------------------------
(* Properties *)

\* The registry a load of the file returns.
Registry == loadResearchLoopRegistryFromDisk(file)

AgentOf(r) == resolveAgentIdFromSessionKey(r.session)
WellFormed(r) == ~IsSome(EarlyError(r))

\* What execute does with request r in the current state.
Response(r) == Execute(file, r, clock, issued + 1)

\* The requests on loop id that its owner can issue with all required
\* parameters.
OwnerRequests(requests, id) ==
    {r \in requests : /\ r.loopId = Some(id)
                      /\ AgentOf(r) = Registry[id].ownerAgentId
                      /\ WellFormed(r)}

\* C1: for every loop and every mutating operation of its owner,
\* checkpoint succeeds iff the loop is active, continue succeeds iff the
\* loop is awaiting_decision below its round cap, close succeeds in every
\* state (changing nothing when the loop is already closed), and every
\* other pair of state and operation returns status error.
C1_TransitionLegality ==
    \A id \in DOMAIN Registry :
        LET loop == Registry[id]
        IN /\ \A r \in OwnerRequests(CheckpointRequests, id) :
                LET status == Response(r).result.status
                IN /\ status \in {"checkpointed", "error"}
                   /\ status = "checkpointed" <=> loop.state = "active"
           /\ \A r \in OwnerRequests(ContinueRequests, id) :
                LET status == Response(r).result.status
                IN /\ status \in {"continued", "error"}
                   /\ status = "continued" <=>
                        (loop.state = "awaiting_decision"
                         /\ loop.currentRound < loop.maxRounds)
           /\ \A r \in OwnerRequests(CloseRequests, id) :
                LET out == Response(r)
                IN /\ out.result.status = "closed"
                   /\ loop.state = "closed" =>
                        loadResearchLoopRegistryFromDisk(out.file) = Registry

\* C1 witness: one loop awaits a decision at its round cap (a checkpoint
\* went through, a continue would be refused) and another one is closed.
C1_Witness ==
    \E id, other \in DOMAIN Registry :
        /\ Registry[id].state = "awaiting_decision"
        /\ Registry[id].currentRound = Registry[id].maxRounds
        /\ Registry[other].state = "closed"

\* A process is inside its load-mutate-save section: it has created the
\* lock file and has not yet removed it.
InCriticalSection(p) == pc[p] \in {"locked", "write", "rename", "chmod", "release"}

\* C2: in every interleaving of concurrent mutating operations at most one
\* of them is between acquiring the lock file and releasing it, also when a
\* contender removes a lock file it finds older than the stale threshold.
C2_MutualExclusion == Cardinality({p \in Procs : InCriticalSection(p)}) <= 1

\* Every process has issued a start, and every start has returned status
\* started: no file-system call failed and no start timed out.
AllStartsReturned ==
    \A p \in Procs : /\ pc[p] = "done"
                     /\ req[p].action = Some("start")
                     /\ Get(res[p]).status = "started"

\* C3: when concurrent starts of one agent have all returned, every start
\* that returned status started has its loop in the persisted registry,
\* owned by that agent: no start's record is lost or overwritten.
C3_NoStartLost ==
    AllStartsReturned =>
        \A p \in Procs :
            Get(res[p]).status = "started" =>
                /\ Get(res[p]).loop.loopId \in DOMAIN Registry
                /\ Registry[Get(res[p]).loop.loopId].ownerAgentId
                       = resolveAgentIdFromSessionKey(req[p].session)

\* The requests that name a loop.
LoopRequests ==
    StatusRequests \cup CheckpointRequests \cup ContinueRequests \cup CloseRequests

\* The requests of session s that name loop id with all required parameters.
RequestsOn(requests, s, id) ==
    {r \in requests : r.session = s /\ r.loopId = Some(id) /\ WellFormed(r)}

\* The loop ids a list response shows.
ListedIds(result) == {result.loops[k].loopId : k \in 1..Len(result.loops)}

\* C4: a status, checkpoint, continue or close on a loop by an agent other
\* than its owner returns the error 'research loop not accessible: <id>'
\* and leaves the stored record as it was, and no list by that agent, with
\* any view, state filter or limit, shows the loop.
C4_AgentIsolation ==
    \A id \in DOMAIN Registry :
        \A s \in Sessions :
            resolveAgentIdFromSessionKey(s) # Registry[id].ownerAgentId =>
                /\ \A r \in RequestsOn(LoopRequests, s, id) :
                       LET out == Response(r)
                       IN /\ out.result =
                                ErrorResult(<<"research loop not accessible: ", id>>)
                          /\ loadResearchLoopRegistryFromDisk(out.file)[id]
                                = Registry[id]
                /\ \A r \in {q \in AllListRequests : q.session = s} :
                       id \notin ListedIds(Response(r).result)

\* C4 witness: two agents each own a loop, and one of the loops awaits a
\* decision, so that every operation of the other agent has something to
\* act on.
C4_Witness ==
    \E id, other \in DOMAIN Registry :
        /\ Registry[id].ownerAgentId # Registry[other].ownerAgentId
        /\ Registry[id].state = "awaiting_decision"
        /\ Registry[other].state = "active"

\* The file with only the loops of one agent in it.
OwnLoopsOnly(agent) ==
    SavedFile([id \in {i \in DOMAIN Registry : Registry[i].ownerAgentId = agent}
                  |-> Registry[id]])

\* The response to request r when the file is stored.
ResponseOn(stored, r) == Execute(stored, r, clock, issued + 1).result

\* The request names a loop that exists and belongs to another agent.
NamesForeignLoop(r) ==
    /\ IsSome(r.loopId)
    /\ Get(r.loopId) \in DOMAIN Registry
    /\ Registry[Get(r.loopId)].ownerAgentId # AgentOf(r)

\* C5 as stated: every response to an agent is the same whether or not the
\* registry holds loops of other agents, so that no response tells whether
\* another agent's loop exists.
C5_NoExistenceLeak ==
    \A r \in LoopRequests \cup AllListRequests :
        ResponseOn(file, r) = ResponseOn(OwnLoopsOnly(AgentOf(r)), r)

\* C5 amended: list responses, and the responses to operations that do not
\* name another agent's loop, are the same whether or not the registry
\* holds loops of other agents; an operation that names another agent's
\* loop answers 'research loop not accessible' where the loop exists and
\* 'research loop not found' where it does not, and shows nothing else.
C5_LeakOnlyOfNamedId ==
    \A r \in LoopRequests \cup AllListRequests :
        IF NamesForeignLoop(r) /\ WellFormed(r)
        THEN /\ ResponseOn(file, r) =
                    ErrorResult(<<"research loop not accessible: ", Get(r.loopId)>>)
             /\ ResponseOn(OwnLoopsOnly(AgentOf(r)), r) =
                    ErrorResult(<<"research loop not found: ", Get(r.loopId)>>)
        ELSE ResponseOn(file, r) = ResponseOn(OwnLoopsOnly(AgentOf(r)), r)

\* C5 witness: two agents each own a loop with a checkpoint, so every list
\* view of either agent has a loop of the other one to leave out.
C5_Witness ==
    \E id, other \in DOMAIN Registry :
        /\ Registry[id].ownerAgentId # Registry[other].ownerAgentId
        /\ Registry[id].checkpoints # <<>>
        /\ Registry[other].checkpoints # <<>>

\* C6: every loop that is not closed has 1 <= currentRound <= maxRounds.
C6_RoundWithinCap ==
    \A id \in DOMAIN Registry :
        Registry[id].state # "closed" =>
            /\ 1 <= Registry[id].currentRound
            /\ Registry[id].currentRound <= Registry[id].maxRounds

\* C6 witness: a loop that a continue has moved to its last round and that
\* a checkpoint has then put before the next decision.
C6_Witness ==
    \E id \in DOMAIN Registry :
        /\ Registry[id].state = "awaiting_decision"
        /\ Registry[id].currentRound = Registry[id].maxRounds
        /\ Registry[id].currentRound > 1

\* The last element of a sequence that is not empty.
Last(s) == s[Len(s)]

\* What a continue does to a record: the round goes up by one, the state
\* is active, and one decision is appended, tagged with the old round.
ContinueShape(old, new) ==
    /\ old.state = "awaiting_decision"
    /\ new.currentRound = old.currentRound + 1
    /\ new.state = "active"
    /\ Len(new.decisions) = Len(old.decisions) + 1
    /\ SubSeq(new.decisions, 1, Len(old.decisions)) = old.decisions
    /\ Last(new.decisions).decision = "continue"
    /\ Last(new.decisions).round = old.currentRound

\* Every step keeps each loop's round or changes it as a continue does.
RoundStep ==
    file' # file =>
        \E before \in {Registry} : \E after \in {Registry'} :
            \A id \in DOMAIN before :
                /\ id \in DOMAIN after
                /\ after[id].currentRound # before[id].currentRound =>
                       ContinueShape(before[id], after[id])

\* A continue that returns status continued has changed its loop as a
\* continue does and reports the new round; a continue that returns an
\* error, and every other operation, leaves every round as it was.
RoundEffect ==
    \A r \in StartRequests \cup LoopRequests \cup ListRequests :
        LET out == Response(r)
            after == loadResearchLoopRegistryFromDisk(out.file)
        IN IF r.action = Some("continue") /\ out.result.status = "continued"
           THEN /\ ContinueShape(Registry[Get(r.loopId)], after[Get(r.loopId)])
                /\ out.result.loop.currentRound = after[Get(r.loopId)].currentRound
                /\ \A id \in DOMAIN Registry \ {Get(r.loopId)} :
                       after[id].currentRound = Registry[id].currentRound
           ELSE \A id \in DOMAIN Registry :
                    after[id].currentRound = Registry[id].currentRound

\* C7: currentRound changes only by a successful continue, which raises it
\* by exactly one, appends one decision 'continue' tagged with the round
\* before the increment, and sets the state to active; no other operation
\* changes currentRound.
C7_RoundChangesOnlyByContinue == [][RoundStep]_vars /\ []RoundEffect

\* C7 witness: a loop in round 2, active, whose last decision is the
\* continue of round 1.
C7_Witness ==
    \E id \in DOMAIN Registry :
        /\ Registry[id].currentRound = 2
        /\ Registry[id].state = "active"
        /\ Registry[id].decisions # <<>>
        /\ Last(Registry[id].decisions).decision = "continue"
        /\ Last(Registry[id].decisions).round = 1

\* What a checkpoint does to a record: exactly one checkpoint is appended,
\* tagged with the loop's round, and the loop goes from active to
\* awaiting_decision in the same round.
CheckpointShape(old, new) ==
    /\ old.state = "active"
    /\ new.state = "awaiting_decision"
    /\ new.currentRound = old.currentRound
    /\ Len(new.checkpoints) = Len(old.checkpoints) + 1
    /\ SubSeq(new.checkpoints, 1, Len(old.checkpoints)) = old.checkpoints
    /\ Last(new.checkpoints).round = old.currentRound

\* Every step keeps each loop's checkpoints or changes them as a
\* checkpoint does.
CheckpointStep ==
    file' # file =>
        \E before \in {Registry} : \E after \in {Registry'} :
            \A id \in DOMAIN before :
                /\ id \in DOMAIN after
                /\ after[id].checkpoints # before[id].checkpoints =>
                       CheckpointShape(before[id], after[id])

\* A checkpoint that returns status checkpointed has changed its loop as a
\* checkpoint does and reports the appended checkpoint as the last one; a
\* checkpoint that returns an error leaves the registry as it was.
CheckpointEffect ==
    \A r \in CheckpointRequests :
        LET out == Response(r)
            after == loadResearchLoopRegistryFromDisk(out.file)
        IN IF out.result.status = "checkpointed"
           THEN /\ CheckpointShape(Registry[Get(r.loopId)], after[Get(r.loopId)])
                /\ out.result.loop.state = "awaiting_decision"
                /\ out.result.loop.lastCheckpoint
                       = Some(Last(after[Get(r.loopId)].checkpoints))
                /\ \A id \in DOMAIN Registry \ {Get(r.loopId)} :
                       after[id] = Registry[id]
           ELSE after = Registry

\* C8: a successful checkpoint appends exactly one checkpoint whose round
\* is the loop's currentRound at that moment and moves the loop from
\* active to awaiting_decision; stored checkpoints never change afterwards.
C8_CheckpointAppendsOne == [][CheckpointStep]_vars /\ []CheckpointEffect

\* C8 witness: a loop with the checkpoints of rounds 1 and 2.
C8_Witness ==
    \E id \in DOMAIN Registry :
        /\ Len(Registry[id].checkpoints) = 2
        /\ Registry[id].checkpoints[1].round = 1
        /\ Registry[id].checkpoints[2].round = 2

\* Every step leaves a closed loop exactly as it is.
ClosedStep ==
    file' # file =>
        \E before \in {Registry} : \E after \in {Registry'} :
            \A id \in DOMAIN before :
                before[id].state = "closed" =>
                    /\ id \in DOMAIN after
                    /\ after[id] = before[id]

\* On a closed loop, checkpoint and continue of the owner return the error
\* 'loop is closed', close returns status closed with the record as it is,
\* and no request of any agent changes the record.
ClosedEffect ==
    \A id \in DOMAIN Registry :
        Registry[id].state = "closed" =>
            /\ \A r \in OwnerRequests(CheckpointRequests \cup ContinueRequests, id) :
                   Response(r).result = ErrorResult(<<"loop is closed">>)
            /\ \A r \in OwnerRequests(CloseRequests, id) :
                   Response(r).result =
                       [status |-> "closed", loop |-> toLoopDetails(Registry[id])]
            /\ \A r \in StartRequests \cup LoopRequests \cup ListRequests :
                   loadResearchLoopRegistryFromDisk(Response(r).file)[id]
                       = Registry[id]

\* C9: closed is terminal: once a loop is closed no operation changes its
\* state, round, checkpoints or decisions; checkpoint and continue return
\* the error 'loop is closed', and a second close returns status closed
\* with the record unchanged and no second close decision.
C9_ClosedIsTerminal == [][ClosedStep]_vars /\ []ClosedEffect

\* C9 witness: a closed loop with a checkpoint and exactly one close
\* decision, next to a loop that is still open.
C9_Witness ==
    \E id, other \in DOMAIN Registry :
        /\ Registry[id].state = "closed"
        /\ Registry[id].checkpoints # <<>>
        /\ Last(Registry[id].decisions).decision = "close"
        /\ Registry[other].state # "closed"

\* The continue request of the session and loop of request r.
ContinueAfter(r) ==
    CHOOSE c \in ContinueRequests :
        c.session = r.session /\ c.loopId = r.loopId /\ c.reason = None

\* C10: a successful checkpoint reports canContinue exactly when its
\* recommendation is continue and currentRound < maxRounds; the continue
\* that follows it succeeds exactly when currentRound < maxRounds, and
\* otherwise returns the error 'cannot continue: max rounds reached
\* (<maxRounds>)' and leaves the loop awaiting_decision.
C10_ContinueBelowCap ==
    \A r \in CheckpointRequests :
        LET out == Response(r)
        IN out.result.status = "checkpointed" =>
            LET id == Get(r.loopId)
                loop == loadResearchLoopRegistryFromDisk(out.file)[id]
                next == Execute(out.file, ContinueAfter(r), clock, issued + 1)
                belowCap == loop.currentRound < loop.maxRounds
            IN /\ out.result.canContinue <=>
                      (Last(loop.checkpoints).recommendation = "continue"
                       /\ belowCap)
               /\ next.result.status = "continued" <=> belowCap
               /\ ~belowCap =>
                      /\ next.result = ErrorResult(
                             <<"cannot continue: max rounds reached (",
                               loop.maxRounds, ")">>)
                      /\ loadResearchLoopRegistryFromDisk(next.file)[id] = loop
                      /\ loop.state = "awaiting_decision"

\* C10 witness: two loops that a checkpoint recommending continue has put
\* before a decision, one at its round cap and one below it: the continue
\* of the first is refused, that of the second goes through.
C10_Witness ==
    \E id, other \in DOMAIN Registry :
        /\ Registry[id].state = "awaiting_decision"
        /\ Last(Registry[id].checkpoints).recommendation = "continue"
        /\ Registry[id].currentRound = Registry[id].maxRounds
        /\ Registry[other].state = "awaiting_decision"
        /\ Last(Registry[other].checkpoints).recommendation = "continue"
        /\ Registry[other].currentRound < Registry[other].maxRounds

-----------------------------------------------------------------------------
(* Error handling *)

\* Every request of the model, and every list request the properties use.
AllRequests ==
    StartRequests \cup LoopRequests \cup AllListRequests \cup UnsupportedRequests

\* The loop records of the document on disk, as written.
StoredLoops(stored) == IF IsSome(stored) THEN Get(stored).loops ELSE EmptyRegistry

\* The error messages of validation, of ownership and visibility, and of
\* the state machine.
ValidationErrors ==
    {<<"topic required">>, <<"loopId required">>, <<"summary required">>,
     <<"unsupported action: ", "purge">>}
VisibilityErrors ==
    {<<"research loop not found: ", id>> : id \in LoopIds}
    \cup {<<"research loop not accessible: ", id>> : id \in LoopIds}
StateErrors ==
    {<<"loop is closed">>}
    \cup {<<"loop must be active to checkpoint (current state: ", st, ")">> :
            st \in LoopStates}
    \cup {<<"loop is not awaiting_decision (current state: ", st, ")">> :
            st \in LoopStates}
    \cup {<<"cannot continue: max rounds reached (", n, ")">> : n \in 1..MaxMaxRounds}

SuccessStatus ==
    [a \in MutatingActions \cup ReadActions |->
        CASE a = "start" -> "started"
          [] a = "checkpoint" -> "checkpointed"
          [] a = "continue" -> "continued"
          [] a = "close" -> "closed"
          [] OTHER -> "ok"]

\* A response envelope for a request with the given action: status error
\* with a message, or the success status of the action.
IsEnvelope(result, action) ==
    /\ "status" \in DOMAIN result
    /\ IF result.status = "error"
       THEN "error" \in DOMAIN result /\ Len(result.error) > 0
       ELSE /\ IsSome(action)
            /\ Get(action) \in DOMAIN SuccessStatus
            /\ result.status = SuccessStatus[Get(action)]

\* C12: execute never throws: whatever the request and whatever fails
\* (a missing parameter, an unsupported action, the lock timeout, an open
\* error other than EEXIST, a failing write, rename or chmod), the call
\* returns an envelope, with status error and a message on failure and
\* with the success status of its action otherwise.
C12_AlwaysAnEnvelope ==
    \A p \in Procs :
        pc[p] = "done" =>
            IsSome(res[p]) /\ IsEnvelope(Get(res[p]), req[p].action)

\* C12 witness: one call has returned the envelope of the lock timeout and
\* another one the envelope of a failed chmod.
C12_Witness ==
    \E p, q \in Procs :
        /\ pc[p] = "done" /\ res[p] = Some(ErrorResult(LockTimeoutError))
        /\ pc[q] = "done" /\ res[q] = Some(ErrorResult(IoError("chmod")))

\* A contender's open finds the lock file there after more than the
\* timeout: it returns the timeout error and has touched nothing; and the
\* timeout error is returned in no other way.
TimeoutStep ==
    \A p \in Procs :
        /\ (/\ pc[p] = "open" /\ pc'[p] # "open"
            /\ IsSome(lock) /\ clock - startedAt[p] > DefaultTimeoutMs)
           => /\ pc'[p] = "done"
              /\ res'[p] = Some(ErrorResult(LockTimeoutError))
              /\ UNCHANGED <<file, lock, runs, issued>>
        /\ (res'[p] = Some(ErrorResult(LockTimeoutError)) /\ res[p] # res'[p])
           => /\ pc[p] = "open" /\ pc'[p] = "done"
              /\ IsSome(lock) /\ clock - startedAt[p] > DefaultTimeoutMs
              /\ UNCHANGED <<file, lock, runs, issued>>

\* An operation that returned the timeout error never ran fn().
TimedOutNeverEntered ==
    \A p \in Procs :
        (pc[p] = "done" /\ res[p] = Some(ErrorResult(LockTimeoutError)))
        => ~IsSome(loadedFrom[p]) /\ runs[p] = EmptyRegistry

\* C13: a mutating operation whose open finds the lock file there after it
\* has contended for longer than the timeout (10 s) stops contending and
\* returns status error with 'timeout acquiring research loop registry
\* lock: <path>'; it has not run its mutator and has not written the file.
C13_LockTimeout == [][TimeoutStep]_vars /\ []TimedOutNeverEntered

\* C13 witness: a call has returned the timeout error while the holder of
\* the lock is still between its load and its rename.
C13_Witness ==
    \E p, q \in Procs :
        /\ pc[p] = "done" /\ res[p] = Some(ErrorResult(LockTimeoutError))
        /\ pc[q] \in {"write", "rename"}
        /\ IsSome(lock) /\ Get(lock).owner = q

\* The error of a save that failed.
WriteErrors == {ErrorResult(IoError(call)) : call \in {"writeFile", "rename", "chmod"}}

\* C14: when a mutating operation has returned status error because its
\* write failed (temp file, rename or chmod), the registry file is as it
\* was when the operation loaded it: the failed mutation is not visible.
C14_FailedWriteInvisible ==
    \A p \in Procs :
        (pc[p] = "done" /\ IsSome(res[p]) /\ Get(res[p]) \in WriteErrors
         /\ \A q \in Procs \ {p} : pc[q] = "idle")
        => file = Get(loadedFrom[p])

\* The loop a successful mutating response is about.
LoopOf(result) == result.loop.loopId

\* Every process has returned from an operation on loop id.
AllReturnedOn(id) ==
    \A q \in Procs : pc[q] = "done" /\ req[q].loopId = Some(id)

\* C15: concurrent mutating operations on the same loop take effect one
\* after the other in lock-acquisition order, so no update is lost: when
\* the concurrent operations on a loop have all returned, the record of
\* the loop is closed if one of them reported closed, and holds the
\* checkpoint that one of them reported.
C15_NoLostUpdate ==
    \A p \in Procs :
        (pc[p] = "done" /\ IsSome(res[p])
         /\ Get(res[p]).status \in {"closed", "checkpointed"})
        => \E result \in {Get(res[p])} : \E id \in {LoopOf(result)} :
            AllReturnedOn(id) =>
                /\ id \in DOMAIN Registry
                /\ result.status = "closed" => Registry[id].state = "closed"
                /\ result.status = "checkpointed" =>
                       \E i \in DOMAIN Registry[id].checkpoints :
                           Some(Registry[id].checkpoints[i])
                               = result.loop.lastCheckpoint

(***************************************************************************)
(* Readers                                                                 *)
(***************************************************************************)

\* A step in which status or list runs.
IsRead(p) ==
    pc[p] = "idle" /\ pc'[p] = "done"
    /\ IsSome(req'[p].action) /\ Get(req'[p].action) \in ReadActions

\* The registry file changes only by the rename of a temp file that holds
\* the whole document of the writer's Map.
WriteStep ==
    file' # file =>
        \E p \in Procs : pc[p] = "rename" /\ file' = SavedFile(runs[p])

\* A reader answers from the document the file holds at its one load.
ReadStep ==
    \A p \in Procs :
        IsRead(p) =>
            /\ file # Some(TornDocument)
            /\ res'[p] = Some(ResponseOn(file, req'[p]))

\* C16: on a platform other than Windows, status or list running while a
\* mutating operation is in progress reads the complete persisted state
\* from before or from after that operation's write: the file is replaced
\* in one step by a complete document and never holds a partial one.
C16_ReadersSeeWholeFile ==
    [][WriteStep /\ ReadStep]_vars /\ [](file # Some(TornDocument))

\* A list has answered from the state before the write of a start that
\* is between its temp-file write and its rename.
C16_Witness ==
    \E p, q \in Procs :
        /\ pc[p] = "done" /\ req[p].action = Some("list")
        /\ res[p] = Some([status |-> "ok", loops |-> <<>>])
        /\ pc[q] = "rename" /\ runs[q] # EmptyRegistry

\* A step of status or list leaves the registry file and the lock file as
\* they are.
ReadOnlyStep ==
    \A p \in Procs : IsRead(p) => file' = file /\ lock' = lock

\* C17: status and list are read-only: they never acquire, create or
\* remove the lock and never write the registry file.
C17_ReadsAreReadOnly == [][ReadOnlyStep]_vars

\* A status has answered while another operation holds the lock, and
\* before any registry file exists.
C17_Witness ==
    \E p, q \in Procs :
        /\ pc[p] = "done" /\ req[p].action = Some("status")
        /\ IsSome(res[p]) /\ Get(res[p]).status = "error"
        /\ IsSome(lock) /\ Get(lock).owner = q /\ pc[q] = "locked"
        /\ ~IsSome(file)

(***************************************************************************)
(* Triage views                                                            *)
(***************************************************************************)

\* The list requests of one view.
ViewRequests(views) == {r \in AllListRequests : r.view \in views}

\* The requester's loops of the registry whose state is in states.
OwnIds(r, states) ==
    {id \in DOMAIN Registry : /\ Registry[id].ownerAgentId = AgentOf(r)
                              /\ Registry[id].state \in states}

\* The key the hot view sorts an entry by.
HotKey(entry) ==
    <<OrElse(entry.lastPriorityScore, 0), OrElse(entry.lastAnalysisQualityScore, 0),
      entry.updatedAt>>

\* Triple a is lexicographically greater than or equal to triple b.
LexGeq(a, b) ==
    \/ a[1] > b[1]
    \/ a[1] = b[1] /\ a[2] > b[2]
    \/ a[1] = b[1] /\ a[2] = b[2] /\ a[3] >= b[3]

\* C18: list with view hot returns only loops of the requester that are
\* awaiting_decision (all of them when no state filter and no limit is
\* given), and the key (last priorityScore or 0, last
\* analysisQualityScore, updatedAt) of each entry is lexicographically
\* greater than or equal to that of the next entry.
C18_HotView ==
    \A r \in ViewRequests({Some("hot")}) :
        \E loops \in {Response(r).result.loops} :
            /\ \A k \in 1..Len(loops) :
                   /\ loops[k].loopId \in OwnIds(r, {"awaiting_decision"})
                   /\ loops[k] = ListEntry(Registry[loops[k].loopId])
            /\ \A k \in 1..(Len(loops) - 1) :
                   LexGeq(HotKey(loops[k]), HotKey(loops[k + 1]))
            /\ (r.state = None /\ r.limit = None) =>
                   /\ Len(loops) = Cardinality(OwnIds(r, {"awaiting_decision"}))
                   /\ ListedIds(Response(r).result) = OwnIds(r, {"awaiting_decision"})

\* The hot view has put a loop checkpointed earlier, with the higher
\* priority score, before a loop checkpointed later without a priority
\* score.
C18_Witness ==
    \E r \in ViewRequests({Some("hot")}) :
        \E loops \in {Response(r).result.loops} :
            /\ Len(loops) = 2
            /\ loops[1].lastPriorityScore = Some(25)
            /\ loops[2].lastPriorityScore = None
            /\ loops[1].updatedAt < loops[2].updatedAt

\* The states the state filter of request r lets through: a value that
\* names no loop state is no filter.
FilterStates(r) ==
    IF IsSome(r.state) /\ Get(r.state) \in LoopStates THEN {Get(r.state)} ELSE LoopStates

\* The limit of request r (the requests give none or one within 1..100).
LimitOf(r) == IF IsSome(r.limit) THEN Get(r.limit) ELSE DefaultLimit

\* loops is the list of the requester's loops ids, most recently updated
\* first, cut to the limit of r.
RecentFirst(r, loops, ids) ==
    /\ Len(loops) = Min(Cardinality(ids), LimitOf(r))
    /\ \A k \in 1..Len(loops) :
           /\ loops[k].loopId \in ids
           /\ loops[k] = ListEntry(Registry[loops[k].loopId])
           /\ \A j \in 1..Len(loops) : loops[j].loopId = loops[k].loopId => j = k
           /\ \A id \in ids \ {loops[j].loopId : j \in 1..Len(loops)} :
                  Registry[id].updatedAt <= loops[k].updatedAt
    /\ \A k \in 1..(Len(loops) - 1) : loops[k].updatedAt >= loops[k + 1].updatedAt

\* C19: list with view all (the default, and what an unknown view means)
\* returns the requester's loops that pass the state filter, and view
\* needs_decision those of them that are awaiting_decision; both are
\* sorted by updatedAt descending and cut to the limit, and
\* needs_decision with a state filter other than awaiting_decision is
\* empty.
C19_RecencyViews ==
    /\ \A r \in ViewRequests({None, Some("all"), Some("recent")}) :
           RecentFirst(r, Response(r).result.loops, OwnIds(r, FilterStates(r)))
    /\ \A r \in ViewRequests({Some("needs_decision")}) :
           /\ RecentFirst(r, Response(r).result.loops,
                          OwnIds(r, FilterStates(r) \cap {"awaiting_decision"}))
           /\ r.state \in {Some("active"), Some("closed")} =>
                  Response(r).result.loops = <<>>

\* Two loops of the requester await a decision, the second checkpointed
\* later: an unknown view lists it first, and needs_decision with limit 1
\* lists it alone.
C19_Witness ==
    \E r \in ViewRequests({Some("recent")}) :
        \E d \in ViewRequests({Some("needs_decision")}) :
            \E loops \in {Response(r).result.loops} :
                /\ r.limit = None /\ r.state = None
                /\ Len(loops) = 2
                /\ loops[1].loopId = 2
                /\ loops[1].updatedAt > loops[2].updatedAt
                /\ d.limit = Some(1) /\ d.state = Some("awaiting_decision")
                /\ AgentOf(d) = AgentOf(r)
                /\ Response(d).result.loops = <<loops[1]>>

\* Last checkpoints around each of the three tests, as far as the tests
\* read them, and loops that end with them.
SampleCheckpoints ==
    [analysisQualityScore : {Some(0), Some(64), Some(65), Some(100)},
     critique : {None, Some(<<>>), Some(<<" ">>), Some(<<"x">>)},
     citationLinks : {None, Some(<<>>), Some(<<Chars(4)>>)}]
SampleLoops ==
    {[checkpoints |-> <<>>]}
    \cup {[checkpoints |-> <<c>>] : c \in SampleCheckpoints}
    \cup {[checkpoints |-> <<c, d>>] : c, d \in SampleCheckpoints}

\* The last checkpoint of the loop has a quality score below 65, or a
\* critique that is missing or empty (nothing but white space), or no
\* citation link.
LastCheckpointIsWeak(loop) ==
    /\ Len(loop.checkpoints) > 0
    /\ \E c \in {loop.checkpoints[Len(loop.checkpoints)]} :
           \/ Get(c.analysisQualityScore) < 65
           \/ c.critique = None
           \/ \A k \in 1..Len(Get(c.critique)) : Get(c.critique)[k] = " "
           \/ c.citationLinks = None
           \/ Len(Get(c.citationLinks)) = 0

\* C20: checkpointNeedsReview(loop) is true iff the last checkpoint of the
\* loop has analysisQualityScore < 65, or an empty or missing critique, or
\* no citation link; view needs_review returns exactly the requester's
\* awaiting_decision loops for which it is true, and the needsReview field
\* of every list entry equals checkpointNeedsReview of its loop.
C20_NeedsReview ==
    /\ \A loop \in SampleLoops : checkpointNeedsReview(loop) <=> LastCheckpointIsWeak(loop)
    /\ \A id \in DOMAIN Registry :
           checkpointNeedsReview(Registry[id]) <=> LastCheckpointIsWeak(Registry[id])
    /\ \A r \in ViewRequests({Some("needs_review")}) :
           RecentFirst(r, Response(r).result.loops,
                       {id \in OwnIds(r, FilterStates(r) \cap {"awaiting_decision"}) :
                            LastCheckpointIsWeak(Registry[id])})
    /\ \A r \in AllListRequests :
           \E loops \in {Response(r).result.loops} :
               \A k \in 1..Len(loops) :
                   loops[k].needsReview
                       <=> LastCheckpointIsWeak(Registry[loops[k].loopId])

\* Two loops of the requester await a decision, one after a thin
\* checkpoint and one after a well-evidenced one: needs_review lists the
\* first alone, and the plain list shows needsReview true for the one and
\* false for the other.
C20_Witness ==
    \E r \in ViewRequests({Some("needs_review")}) :
        \E a \in ViewRequests({None}) :
            \E loops \in {Response(a).result.loops} :
                /\ r.limit = None /\ r.state = None
                /\ a.limit = None /\ a.state = None /\ AgentOf(a) = AgentOf(r)
                /\ Len(loops) = 2
                /\ \A k \in 1..2 : loops[k].state = "awaiting_decision"
                /\ \E k \in 1..2 :
                       /\ loops[k].needsReview /\ ~loops[3 - k].needsReview
                       /\ Response(r).result.loops = <<loops[k]>>

(***************************************************************************)
(* Numeric parameters and elapsed time                                     *)
(***************************************************************************)

\* Numbers around the ends of the ranges, with and without a fraction.
SampleNumbers ==
    {None}
    \cup {Number(k) : k \in {-5, 0, 1, 2, 20, 21, 24, 100, 101, 720, 721, 100000}}
    \cup {Half(k) : k \in {-1, 0, 1, 19, 20, 99, 100, 719, 720}}

\* The number floored and clamped into lo..hi, or dflt when there is none
\* (the largest integer not above k or k + 1/2 is k).
FlooredInto(n, lo, hi, dflt) ==
    IF n = None THEN dflt
    ELSE Max(lo, Min(hi, n[1]))

StaleRequests ==
    {[Request("list", s, None) EXCEPT !.view = Some("stale"), !.staleHours = h] :
        s \in Sessions, h \in {None, Number(0), Number(1), Half(1), Number(25)}}

\* The requester's active loops last updated at least the window ago.
StaleIds(r, hours) ==
    {id \in OwnIds(r, {"active"}) : Registry[id].updatedAt <= clock - hours * MsPerHour}

\* C21: list with view stale returns exactly the requester's loops whose
\* state is active and whose updatedAt <= now - staleHours hours, where
\* staleHours is 24 when absent and otherwise floored and clamped to
\* [1, 720]; and the passing of time alone changes no record, so a loop
\* that has become stale is still active.
StaleWindowNormal ==
    \A n \in SampleNumbers : normalizeStaleHours(n) = FlooredInto(n, 1, 720, 24)
StaleViewExact ==
    \A r \in StaleRequests :
        \E loops \in {Response(r).result.loops} :
            /\ ListedIds(Response(r).result)
                   = StaleIds(r, FlooredInto(r.staleHours, 1, 720, 24))
            /\ \A k \in 1..Len(loops) :
                   /\ loops[k] = ListEntry(Registry[loops[k].loopId])
                   /\ loops[k].state = "active"
                   /\ \A j \in 1..Len(loops) : loops[j].loopId = loops[k].loopId => j = k
C21_StaleView ==
    [][clock' # clock => file' = file]_vars /\ [](StaleWindowNormal /\ StaleViewExact)

\* The requester has two active loops, one last updated exactly a day ago
\* and one just now: the default window lists the first alone, and a
\* window of 25 hours lists none.
C21_Witness ==
    \E r, h \in StaleRequests :
        /\ r.staleHours = None /\ h.staleHours = Number(25) /\ AgentOf(r) = AgentOf(h)
        /\ Cardinality(OwnIds(r, {"active"})) = 2
        /\ \E id \in OwnIds(r, {"active"}) :
               /\ ListedIds(Response(r).result) = {id}
               /\ Registry[id].updatedAt = clock - DefaultStaleHours * MsPerHour
        /\ ListedIds(Response(h).result) = {}

\* List requests with a numeric limit, in and out of range, and none.
LimitRequests ==
    {[Request("list", s, None) EXCEPT !.view = v, !.limit = n] :
        s \in Sessions, v \in {None, Some("hot")},
        n \in {None} \cup {Number(k) : k \in {-3, 0, 1, 2, 100, 101}}}

\* C22: for every numeric limit (0, negative values and values above 100
\* included) list returns exactly min(L, number of matching loops)
\* entries, where L is 20 when the limit is absent and otherwise the limit
\* clamped into [1, 100]; the entries are the first L of the view's
\* sorted order.
C22_LimitClamped ==
    \A r \in LimitRequests :
        \E L \in {IF r.limit = None THEN 20 ELSE Max(1, Min(100, r.limit[1]))} :
            \E sorted \in {Response([r EXCEPT !.limit = None]).result.loops} :
                Response(r).result.loops = SubSeq(sorted, 1, Min(L, Len(sorted)))

(***************************************************************************)
(* Derived signals of a checkpoint                                         *)
(***************************************************************************)

\* The checkpoint call of process 1 has returned status checkpointed.
Checkpointed ==
    pc[1] = "done" /\ IsSome(res[1]) /\ Get(res[1]).status = "checkpointed"

\* The checkpoint that call has pushed, and the loop it is in.
PushedLoop == Registry[Get(req[1].loopId)]
Pushed == PushedLoop.checkpoints[Len(PushedLoop.checkpoints)]

\* The conditions of a spawn, in their order, each with the reason given
\* when it is the first to fail.
SpawnConditions ==
    <<[holds |-> Pushed.recommendation = "continue",
       reason |-> "Checkpoint recommendation is not continue."],
      [holds |-> Get(res[1]).canContinue,
       reason |-> "Max rounds reached; review or close."],
      [holds |-> Pushed.proposedTasks # None /\ Len(Get(Pushed.proposedTasks)) >= 1,
       reason |-> "No proposed tasks to delegate."],
      [holds |-> Get(Pushed.analysisQualityScore) >= 40,
       reason |-> "Analysis quality is too low; improve checkpoint quality first."],
      [holds |-> Pushed.confidence = None \/ Get(Pushed.confidence) < 4,
       reason |-> "Confidence is already high; delegation is optional."],
      [holds |-> \/ Pushed.priorityScore # None /\ Get(Pushed.priorityScore) >= 12
                 \/ PushedLoop.priority = "high",
       reason |-> "Priority score is below delegation threshold."]>>

\* C23: spawnAdvice.shouldSpawn is true iff, for the last checkpoint, the
\* recommendation is continue, canContinue holds, a first proposed task
\* exists, analysisQualityScore >= 40, confidence is missing or < 4, and
\* priorityScore >= 12 or the loop's priority is high; when true,
\* suggestedTask is the first proposed task; when false, the reason is
\* that of the first condition that fails, in this order.
C23_SpawnAdvice ==
    Checkpointed =>
        \E advice \in {Get(res[1]).spawnAdvice} : \E conds \in {SpawnConditions} :
            /\ advice.shouldSpawn <=> \A k \in 1..6 : conds[k].holds
            /\ advice.shouldSpawn =>
                   advice.suggestedTask = Some(Get(Pushed.proposedTasks)[1])
            /\ ~advice.shouldSpawn =>
                   \E k \in 1..6 :
                       /\ ~conds[k].holds
                       /\ \A j \in 1..(k - 1) : conds[j].holds
                       /\ advice.reason = conds[k].reason
                       /\ advice.suggestedTask = None

\* A checkpoint on a loop of normal priority with a priority score of
\* exactly 12, a quality of at least 40 and a confidence of 3 advises a
\* spawn of its first task.
C23_Witness ==
    /\ Checkpointed
    /\ Get(res[1]).spawnAdvice.shouldSpawn
    /\ PushedLoop.priority = "normal"
    /\ Pushed.priorityScore = Number(12)
    /\ Pushed.confidence = Number(3)
    /\ Get(res[1]).spawnAdvice.suggestedTask = Some(Chars(2))

\* Points of a count c on a scale of <<threshold, points>> steps, highest
\* threshold first.
Tier(c, steps) ==
    IF \E k \in 1..Len(steps) : c >= steps[k][1]
    THEN steps[CHOOSE k \in 1..Len(steps) :
                   c >= steps[k][1] /\ \A j \in 1..(k - 1) : c < steps[j][1]][2]
    ELSE 0

\* The number of entries of an optional list.
Count(list) == IF list = None THEN 0 ELSE Len(Get(list))

\* The sum of the parts of the quality score of checkpoint c.
ScoreParts(c) ==
    Tier(Len(c.summary), <<<<160, 20>>, <<80, 16>>, <<40, 12>>, <<20, 8>>>>)
    + (IF c.critique # None /\ Get(c.critique) # <<>> THEN 20 ELSE 0)
    + Tier(Count(c.citationLinks), <<<<3, 25>>, <<1, 15>>>>)
    + Tier(Count(c.counterpoints), <<<<2, 15>>, <<1, 10>>>>)
    + Tier(Count(c.proposedTasks), <<<<2, 10>>, <<1, 6>>>>)
    + (IF c.evidenceQuality # None THEN 2 * Get(c.evidenceQuality) ELSE 0)
    + (IF c.whyNow # None /\ Get(c.whyNow) # <<>> THEN 5 ELSE 0)

\* C24: computeResearchLoopAnalysisQualityScore returns min(100, summary
\* tier (>= 160 chars: 20, >= 80: 16, >= 40: 12, >= 20: 8, else 0) + 20
\* for a non-empty critique + citations (>= 3: 25, >= 1: 15) +
\* counterpoints (>= 2: 15, 1: 10) + proposed tasks (>= 2: 10, 1: 6) + 2 x
\* evidenceQuality when present + 5 for a non-empty whyNow), a function of
\* these inputs alone.
C24_QualityScore ==
    Checkpointed =>
        /\ Pushed.analysisQualityScore = Number(Min(100, ScoreParts(Pushed)))
        /\ Pushed.analysisQualityScore
               = Number(computeResearchLoopAnalysisQualityScore(
                     [summary |-> Pushed.summary,
                      critique |-> Pushed.critique,
                      proposedTasks |-> Pushed.proposedTasks,
                      evidenceQuality |-> Pushed.evidenceQuality,
                      citationLinks |-> Pushed.citationLinks,
                      counterpoints |-> Pushed.counterpoints,
                      whyNow |-> Pushed.whyNow]))

\* A checkpoint whose parts add up to 105 has the score 100.
C24_Witness ==
    /\ Checkpointed
    /\ ScoreParts(Pushed) = 105
    /\ Pushed.analysisQualityScore = Number(100)

\* An optional number that is an integer within lo..hi.
IntegerIn(n, lo, hi) == IsInteger(n) /\ n[1] >= lo /\ n[1] <= hi

\* The scores and ratings of checkpoint c are in their ranges.
ScoresInRange(c) ==
    /\ IntegerIn(c.analysisQualityScore, 0, 100)
    /\ \A rating \in {c.importance, c.urgency, c.confidence, c.evidenceQuality} :
           rating = None \/ IntegerIn(rating, 1, 5)
    /\ \/ c.priorityScore = None
       \/ /\ IntegerIn(c.priorityScore, 1, 25)
          /\ c.importance # None /\ c.urgency # None
          /\ c.priorityScore = Number(Get(c.importance) * Get(c.urgency))

\* C25: every checkpoint of every registry, as the checkpoint operation
\* writes it and as a load of any stored document returns it, has
\* analysisQualityScore an integer in [0, 100], priorityScore undefined or
\* an integer in [1, 25] equal to importance x urgency, and importance,
\* urgency, confidence and evidenceQuality each undefined or an integer in
\* [1, 5].
C25_ScoresInRange ==
    \A id \in DOMAIN Registry :
        \A k \in 1..Len(Registry[id].checkpoints) :
            ScoresInRange(Registry[id].checkpoints[k])

(***************************************************************************)
(* Save and load                                                           *)
(***************************************************************************)

\* The mutating requests that pass validation.
MutatingRequests ==
    {r \in StartRequests \cup CheckpointRequests \cup ContinueRequests \cup CloseRequests :
        WellFormed(r)}

\* Records a and b agree in every field the registry keeps of a loop.
SameRecord(a, b) ==
    /\ a.loopId = b.loopId /\ a.topic = b.topic
    /\ a.ownerAgentId = b.ownerAgentId
    /\ a.state = b.state
    /\ a.currentRound = b.currentRound /\ a.maxRounds = b.maxRounds
    /\ a.priority = b.priority
    /\ a.createdAt = b.createdAt /\ a.updatedAt = b.updatedAt
    /\ a.closedAt = b.closedAt /\ a.closeReason = b.closeReason
    /\ a.startedBySessionKey = b.startedBySessionKey
    /\ a.checkpoints = b.checkpoints
    /\ a.decisions = b.decisions

\* C26: after any sequence of valid operations, a load of the persisted
\* file yields for every loop a record equal to the in-memory record the
\* last mutating operation saved (owner, state, currentRound, maxRounds,
\* priority, timestamps, checkpoints and decisions).
C26_RoundTrip ==
    \A r \in MutatingRequests :
        \E memory \in {Mutate(Registry, r, clock, issued + 1).registry} :
            \E reloaded \in {loadResearchLoopRegistryFromDisk(Response(r).file)} :
                /\ DOMAIN reloaded = DOMAIN memory
                /\ \A id \in DOMAIN memory : SameRecord(reloaded[id], memory[id])

\* The file holds a loop that went through a well-evidenced checkpoint, a
\* continue and a close with a reason.
C26_Witness ==
    \E id \in DOMAIN Registry :
        /\ Registry[id].state = "closed"
        /\ Registry[id].closeReason = Some("done")
        /\ Registry[id].currentRound = 2
        /\ Len(Registry[id].decisions) = 2
        /\ Len(Registry[id].checkpoints) = 1
        /\ Registry[id].checkpoints[1].priorityScore = Number(25)

\* C27: load-time normalization is idempotent: for every stored document,
\* saving the registry a load returns and loading it again returns a
\* registry equal to the first load's result.
C27_LoadIdempotent ==
    loadResearchLoopRegistryFromDisk(SavedFile(Registry)) = Registry

\* Start requests with maxRounds in and out of range, with and without a
\* fraction, and none.
CapRequests ==
    {[Request("start", s, None) EXCEPT !.topic = Some("M"), !.maxRounds = m] :
        s \in Sessions, m \in SampleNumbers}

\* C28: every loop's maxRounds is an integer in [1, 20] in every registry
\* state: start floors and clamps the supplied value into [1, 20] and uses
\* 2 when it is absent, and every registry a load returns has maxRounds in
\* [1, 20] for every loop, whatever value is stored.
C28_MaxRoundsInRange ==
    /\ \A r \in CapRequests :
           Response(r).result.status = "started"
           /\ Response(r).result.loop.maxRounds = FlooredInto(r.maxRounds, 1, 20, 2)
    /\ \A id \in DOMAIN Registry :
           Registry[id].maxRounds >= 1 /\ Registry[id].maxRounds <= 20

(***************************************************************************)
(* A store file that cannot be read                                        *)
(***************************************************************************)

\* The file is missing, unparseable, or of a version other than 1.
Unreadable(stored) == ~IsSome(stored) \/ Get(stored).version # REGISTRY_VERSION

\* The status requests that name a loop.
NamedStatusRequests == {r \in StatusRequests : IsSome(r.loopId)}

\* C29: when the store file is missing, unparseable or of a version other
\* than 1, a load returns an empty registry and no persistence error is
\* surfaced (list returns ok with no loops, status returns not found); the
\* next successful mutating operation writes a version-1 document that
\* contains only the records that operation produced.
C29_UnreadableIsEmpty ==
    /\ [](Unreadable(file) =>
            /\ Registry = EmptyRegistry
            /\ \A r \in AllListRequests :
                   Response(r) = [file |-> file, result |-> [status |-> "ok", loops |-> <<>>]]
            /\ \A r \in NamedStatusRequests :
                   Response(r) =
                       [file |-> file,
                        result |-> ErrorResult(<<"research loop not found: ", Get(r.loopId)>>)]
            /\ \A r \in MutatingRequests :
                   Response(r).result.status # "error" =>
                       /\ Response(r).result.status = "started"
                       /\ Response(r).file =
                              Some([version |-> REGISTRY_VERSION,
                                    loops |-> [id \in {issued + 1} |->
                                        Mutate(EmptyRegistry, r, clock, issued + 1).registry[id]]]))
    /\ [][Unreadable(file) /\ file' # file =>
            /\ Get(file').version = REGISTRY_VERSION
            /\ DOMAIN Get(file').loops = (issued + 1)..issued']_vars

\* A start on a store of version 2 that held loop 1 left a version-1
\* document that holds the started loop 2 alone.
C29_Witness ==
    /\ IsSome(file)
    /\ Get(file).version = REGISTRY_VERSION
    /\ DOMAIN Get(file).loops = {2}
    /\ issued = 2
    /\ Response(Request("status", Some(<<"agent", "alpha", "main">>), Some(1))).result.status
           = "error"

(***************************************************************************)
(* Timestamps                                                              *)
(***************************************************************************)

\* The loop a successful mutating request r wrote, before and after: a
\* start has no record before.
Touched(r) ==
    The({IF out.result.status = "started"
         THEN [fresh |-> TRUE, old |-> after[issued + 1], new |-> after[issued + 1]]
         ELSE [fresh |-> FALSE, old |-> Registry[Get(r.loopId)],
               new |-> after[Get(r.loopId)]] :
         after \in {loadResearchLoopRegistryFromDisk(out.file) : out \in {Response(r)}},
         out \in {Response(r)}})

\* The mutation of the record took place at time now: updatedAt and the
\* entry the mutation appended carry it.
StampedAt(t, now) ==
    /\ t.new.updatedAt = now
    /\ t.fresh => t.new.createdAt = now
    /\ Len(t.new.checkpoints) > Len(t.old.checkpoints) =>
           t.new.checkpoints[Len(t.new.checkpoints)].createdAt = now
    /\ Len(t.new.decisions) > Len(t.old.decisions) =>
           t.new.decisions[Len(t.new.decisions)].createdAt = now
    /\ (t.new.state = "closed" /\ t.old.state # "closed") => t.new.closedAt = Some(now)

\* C30: for every loop in every reachable state updatedAt >= createdAt, and
\* every successful mutation of a loop (checkpoint, continue, first close)
\* sets its updatedAt to a value greater than or equal to its previous
\* updatedAt; the timestamp of each mutation is the value the clock
\* returns at that mutation.
C30_Timestamps ==
    /\ [](/\ \A id \in DOMAIN Registry : Registry[id].updatedAt >= Registry[id].createdAt
          /\ \A r \in MutatingRequests :
                 Response(r).result.status # "error" =>
                     \E t \in {Touched(r)} :
                         IF ~t.fresh /\ t.old.state = "closed"
                         THEN t.new = t.old
                         ELSE /\ StampedAt(t, clock)
                              /\ t.new.updatedAt >= t.old.updatedAt)
    /\ [][file' # file =>
            \E before \in {Registry} : \E after \in {Registry'} :
                \A id \in DOMAIN before :
                    /\ id \in DOMAIN after
                    /\ after[id].updatedAt >= before[id].updatedAt
                    /\ after[id] # before[id] => after[id].updatedAt = clock]_vars

\* A loop started and checkpointed at time 0 and closed a tick later:
\* updatedAt moved from createdAt to the time of the close.
C30_Witness ==
    \E id \in DOMAIN Registry :
        /\ Registry[id].createdAt = 0
        /\ Len(Registry[id].checkpoints) = 1
        /\ Registry[id].checkpoints[1].createdAt = 0
        /\ Registry[id].state = "closed"
        /\ Registry[id].closedAt = Some(TickMs)
        /\ Registry[id].updatedAt = TickMs
        /\ clock = TickMs

(***************************************************************************)
(* Identity of a loop                                                      *)
(***************************************************************************)

\* The fields of a record that are given at start.
Identity(loop) ==
    <<loop.loopId, loop.topic, loop.ownerAgentId, loop.maxRounds, loop.createdAt>>

\* Every record of registry before is in registry after with the same identity.
KeepsIdentity(before, after) ==
    \A id \in DOMAIN before :
        /\ id \in DOMAIN after
        /\ Identity(after[id]) = Identity(before[id])

\* C31: the registry holds exactly one record per loopId, and a loop's
\* loopId, topic, ownerAgentId, maxRounds and createdAt have in every later
\* state the values given at start, across any sequence of operations by
\* any agent and across reloads.
C31_IdentityKept ==
    /\ [](/\ \A id \in DOMAIN Registry : Registry[id].loopId = id
          /\ Cardinality(DOMAIN Registry) = issued
          /\ \A r \in MutatingRequests :
                 \E memory \in {Mutate(Registry, r, clock, issued + 1)} :
                     \E reloaded \in {loadResearchLoopRegistryFromDisk(Response(r).file)} :
                         /\ KeepsIdentity(Registry, memory.registry)
                         /\ KeepsIdentity(Registry, reloaded)
                         /\ memory.result.status = "started" =>
                                Identity(reloaded[issued + 1]) =
                                    <<issued + 1, Get(r.topic),
                                      resolveAgentIdFromSessionKey(r.session),
                                      normalizeMaxRounds(r.maxRounds), clock>>)
    /\ [][file' # file =>
            \E before \in {Registry} : \E after \in {Registry'} :
                KeepsIdentity(before, after)]_vars

\* Loop 1 of alpha went through a checkpoint and a close a tick after its
\* start, beside a loop of beta, and kept what its start gave it.
C31_Witness ==
    /\ DOMAIN Registry = {1, 2}
    /\ Registry[1].state = "closed"
    /\ Len(Registry[1].checkpoints) = 1
    /\ Registry[1].updatedAt = TickMs
    /\ Identity(Registry[1]) = <<1, "M", "alpha", 2, 0>>
    /\ Registry[2].ownerAgentId = "beta"

(***************************************************************************)
(* closedAt and closeReason                                                *)
(***************************************************************************)

\* The close requests that pass validation.
ValidCloseRequests == {r \in CloseRequests : WellFormed(r)}

\* The record of a closed loop carries its close: closedAt, and as last
\* decision the one close decision, of the current round.
CarriesClose(loop) ==
    /\ IsSome(loop.closedAt)
    /\ loop.decisions # <<>>
    /\ \E last \in {loop.decisions[Len(loop.decisions)]} :
           /\ last.decision = "close"
           /\ last.round = loop.currentRound
           /\ last.createdAt = Get(loop.closedAt)
           /\ last.reason = loop.closeReason
    /\ Cardinality({k \in 1..Len(loop.decisions) : loop.decisions[k].decision = "close"}) = 1
    /\ loop.updatedAt = Get(loop.closedAt)

\* C32: closedAt and closeReason are set only on closed loops: in every
\* reachable state a loop whose state is not closed has neither, and a loop
\* whose state is closed has closedAt set to the time of the close and, as
\* its last decision, one record {decision: close, round: currentRound at
\* the close}.
C32_ClosedFields ==
    /\ \A id \in DOMAIN Registry :
           IF Registry[id].state = "closed"
           THEN CarriesClose(Registry[id])
           ELSE Registry[id].closedAt = None /\ Registry[id].closeReason = None
    /\ \A r \in ValidCloseRequests :
           Response(r).result.status = "closed" =>
               \E old \in {Registry[Get(r.loopId)]} :
                   \E new \in {loadResearchLoopRegistryFromDisk(Response(r).file)[Get(r.loopId)]} :
                       IF old.state = "closed" THEN new = old
                       ELSE /\ new.state = "closed"
                            /\ new.closedAt = Some(clock)
                            /\ new.closeReason = r.reason
                            /\ new.currentRound = old.currentRound
                            /\ new.decisions =
                                   Append(old.decisions,
                                          [round |-> old.currentRound, decision |-> "close",
                                           reason |-> r.reason, createdAt |-> clock])

\* A loop closed with a reason in its second round, a tick after its
\* start: its last decision is the close, of round 2.
C32_Witness ==
    \E id \in DOMAIN Registry :
        /\ Registry[id].state = "closed"
        /\ Registry[id].closedAt = Some(TickMs)
        /\ Registry[id].closeReason = Some("done")
        /\ Registry[id].currentRound = 2
        /\ Len(Registry[id].decisions) = 2
        /\ Registry[id].decisions[1].decision = "continue"
        /\ Registry[id].createdAt = 0

(***************************************************************************)
(* Append-only lists                                                       *)
(***************************************************************************)

\* Sequence a is a prefix of sequence b.
IsPrefix(a, b) == Len(a) <= Len(b) /\ SubSeq(b, 1, Len(a)) = a

\* A checkpoint whose one proposed task is a character longer than the cap,
\* with a space at the cap.
LongTaskCheckpoint(r) ==
    [ThinCheckpoint(r) EXCEPT !.proposedTasks = Some(<<LongText(MaxTaskChars)>>)]

\* The valid mutating requests, and checkpoints with a task over the cap.
AppendRequests ==
    MutatingRequests
    \cup {LongTaskCheckpoint(Request("checkpoint", s, Some(id))) : s \in Sessions, id \in LoopIds}

\* The lists of loop a are prefixes of the lists of loop b.
Extends(a, b) ==
    /\ IsPrefix(a.checkpoints, b.checkpoints)
    /\ IsPrefix(a.decisions, b.decisions)

\* C33: checkpoints and decisions are append-only: for every operation and
\* every loop, the loop's checkpoints list and decisions list before the
\* operation are prefixes of the lists after it (no entry is removed,
\* reordered or modified), also across a save and reload.
C33_AppendOnly ==
    \A r \in AppendRequests :
        \E memory \in {Mutate(Registry, r, clock, issued + 1).registry} :
            \E reloaded \in {loadResearchLoopRegistryFromDisk(Response(r).file)} :
                \A id \in DOMAIN Registry :
                    /\ id \in DOMAIN memory /\ id \in DOMAIN reloaded
                    /\ Extends(Registry[id], memory[id])
                    /\ Extends(memory[id], reloaded[id])

(***************************************************************************)
(* start                                                                   *)
(***************************************************************************)

\* The start requests that pass validation.
ValidStartRequests == {r \in StartRequests : WellFormed(r)}

\* Registry after holds the records of before, unchanged, and one more,
\* under loopId: a loop as start creates it for request r at time now.
AddsOne(before, after, loopId, r, now) ==
    /\ loopId \notin DOMAIN before
    /\ DOMAIN after = DOMAIN before \cup {loopId}
    /\ \A id \in DOMAIN before : after[id] = before[id]
    /\ after[loopId].loopId = loopId
    /\ after[loopId].state = "active"
    /\ after[loopId].currentRound = 1
    /\ after[loopId].checkpoints = <<>>
    /\ after[loopId].decisions = <<>>
    /\ after[loopId].createdAt = now
    /\ after[loopId].updatedAt = now
    /\ after[loopId].ownerAgentId = resolveAgentIdFromSessionKey(r.session)

\* C34: each successful start adds exactly one record to the registry,
\* under a loopId that was not present before, with state active,
\* currentRound 1, empty checkpoints and decisions, createdAt = updatedAt
\* and ownerAgentId equal to the requester's agent id, and leaves every
\* record that existed before unchanged; two starts with identical
\* parameters create two distinct loops.
C34_StartAddsOne ==
    /\ [](\A r \in ValidStartRequests :
            \E first \in {Response(r)} :
                \E second \in {Execute(first.file, r, clock, issued + 2)} :
                    \E one \in {loadResearchLoopRegistryFromDisk(first.file)} :
                        \E two \in {loadResearchLoopRegistryFromDisk(second.file)} :
                            /\ first.result.status = "started"
                            /\ second.result.status = "started"
                            /\ first.result.loop.loopId = issued + 1
                            /\ second.result.loop.loopId = issued + 2
                            /\ AddsOne(Registry, one, issued + 1, r, clock)
                            /\ AddsOne(one, two, issued + 2, r, clock))
    /\ [][issued' # issued =>
            \E before \in {Registry} : \E after \in {Registry'} :
                /\ Cardinality(DOMAIN after) = Cardinality(DOMAIN before) + 1
                /\ \A id \in DOMAIN before : id \in DOMAIN after /\ after[id] = before[id]]_vars

\* Two starts with the same parameters at the same time, after a
\* checkpoint of the first loop: two loops that differ in their loopId,
\* the second one fresh and the first one as its checkpoint left it.
C34_Witness ==
    /\ DOMAIN Registry = {1, 2}
    /\ Registry[1].state = "awaiting_decision"
    /\ Registry[2].state = "active"
    /\ Registry[2].checkpoints = <<>>
    /\ Registry[1].createdAt = Registry[2].createdAt
    /\ [Registry[1] EXCEPT !.loopId = 2, !.state = "active", !.checkpoints = <<>>,
                           !.updatedAt = Registry[2].updatedAt]
           = Registry[2]

(***************************************************************************)
(* Removal of the lock file                                                *)
(***************************************************************************)

\* The lock file that exists is older than the stale threshold.
LockIsStale == IsSome(lock) /\ clock - Get(lock).mtime > DefaultStaleMs

\* Process p runs the unlink of the stale branch in this step.
UnlinksStale(p) == pc[p] = "unlink" /\ pc'[p] = "open"

\* C35: a contender removes the lock file only if the lock file that exists
\* at the moment of removal is older than the stale threshold: a lock file
\* younger than the threshold, in particular one just created by another
\* contender, is removed only by the operation that created it.
C35_OnlyStaleLockRemoved ==
    [][\A p \in Procs : (UnlinksStale(p) /\ IsSome(lock)) => LockIsStale]_vars

(***************************************************************************)
(* An abandoned lock file                                                  *)
(***************************************************************************)

\* Process p starts contending now, and the lock file is stale.
StartsOnStaleLock(p) == pc[p] = "open" /\ startedAt[p] = clock /\ LockIsStale

\* Process p has loaded, mutated and saved, and is about to release.
Saved(p) == pc[p] = "release" /\ IsSome(res[p]) /\ Get(res[p]).status # "error"

\* C36: a lock file left behind by an operation that never releases it does
\* not block mutations forever: once the lock file's age exceeds the stale
\* threshold, a mutating operation that starts contending removes it and
\* acquires the lock instead of timing out, so (under fairness, with
\* finitely many contenders) every such operation eventually completes its
\* read-modify-write.
C36_AbandonedLockRecovered ==
    \A p \in Procs : StartsOnStaleLock(p) ~> (pc[p] = "release")

\* A start that began at time 30003, when the abandoned lock file of time 0
\* was stale, has saved its loop under its own lock file, after an earlier
\* operation timed out on the same lock file.
C36_Witness ==
    \E p \in Procs :
        /\ Saved(p)
        /\ Get(res[p]).status = "started"
        /\ startedAt[p] = MaxLockTicks * TickMs
        /\ lock = Some([owner |-> p, mtime |-> startedAt[p]])
        /\ \E q \in Procs : res[q] = Some(Caught(LockTimeoutError))

(***************************************************************************)
(* Release of the lock file                                                *)
(***************************************************************************)

\* Process p runs the unlink of its finally in this step.
Releases(p) == pc[p] = "release" /\ pc'[p] = "done"

\* C37: when an operation leaves its critical section, normally or because
\* the mutator or the write threw, it removes the lock file it created; and
\* an operation's release never removes a lock file that was created by a
\* different operation.
C37_ReleaseOwnLock ==
    [][\A p \in Procs :
           /\ Releases(p) => (lock' = None /\ (IsSome(lock) => Get(lock).owner = p))
           /\ (pc[p] \in {"locked", "write", "rename", "chmod"} /\ pc'[p] # pc[p]) =>
                  pc'[p] \in {"write", "rename", "chmod", "release"}]_vars

(***************************************************************************)
(* Concurrent operations of the same kind on one loop                      *)
(***************************************************************************)

\* Processes p and q have both returned success of the same kind for the
\* same round of the same loop: both ran on the loop in the same state.
BothSucceeded(p, q, status) ==
    /\ pc[p] = "done" /\ pc[q] = "done"
    /\ IsSome(res[p]) /\ IsSome(res[q])
    /\ Get(res[p]).status = status /\ Get(res[q]).status = status
    /\ LoopOf(Get(res[p])) = LoopOf(Get(res[q]))
    /\ Get(res[p]).loop.currentRound = Get(res[q]).loop.currentRound

\* C38: if two checkpoint operations, or two continue operations, on the
\* same loop are issued concurrently by its owner from the same starting
\* state, exactly one of them returns success and the other returns a
\* state-machine error: the loop gains exactly one checkpoint, respectively
\* its currentRound rises by exactly one.
C38_OneOfTwoSucceeds ==
    \A p \in Procs : \A q \in Procs \ {p} :
        /\ ~BothSucceeded(p, q, "checkpointed")
        /\ ~BothSucceeded(p, q, "continued")

(***************************************************************************)
(* Rounds, checkpoints and decisions                                       *)
(***************************************************************************)

\* The number of continue decisions of a loop.
Continues(loop) ==
    Cardinality({k \in 1..Len(loop.decisions) : loop.decisions[k].decision = "continue"})

\* The checkpoints, the decisions and the round of a loop agree.
RoundsAgree(loop) ==
    /\ loop.state = "awaiting_decision" =>
           /\ Len(loop.checkpoints) = loop.currentRound
           /\ LastCheckpoint(loop) # None
           /\ Get(LastCheckpoint(loop)).round = loop.currentRound
    /\ loop.state = "active" => Len(loop.checkpoints) = loop.currentRound - 1
    /\ \A k \in 1..Len(loop.checkpoints) : loop.checkpoints[k].round = k
    /\ Len(loop.checkpoints) <= loop.maxRounds
    /\ Continues(loop) = loop.currentRound - 1

\* C39: in every reachable state of a loop: the number of checkpoints
\* equals currentRound when the state is awaiting_decision and
\* currentRound - 1 when it is active; the round fields of the checkpoints
\* are 1, 2, ..., k in order (one checkpoint per round, never more than
\* maxRounds); and the number of continue decisions equals
\* currentRound - 1.  In particular a loop in awaiting_decision always has
\* a last checkpoint, whose round is currentRound.
C39_RoundsAgree ==
    \A id \in DOMAIN Registry : RoundsAgree(Registry[id])

\* A loop that waits for a decision on its second checkpoint, at its cap
\* of two rounds.
C39_Witness ==
    \E id \in DOMAIN Registry :
        /\ Registry[id].state = "awaiting_decision"
        /\ Registry[id].currentRound = 2
        /\ Registry[id].maxRounds = 2
        /\ Len(Registry[id].checkpoints) = 2
        /\ Continues(Registry[id]) = 1

(***************************************************************************)
(* Finitely many changes of a loop                                         *)
(***************************************************************************)

\* The number of close decisions of a loop.
Closes(loop) ==
    Cardinality({k \in 1..Len(loop.decisions) : loop.decisions[k].decision = "close"})

\* The state-changing operations a loop has gone through since its start.
Changes(loop) == Len(loop.checkpoints) + Len(loop.decisions)

\* The checkpoint and continue requests that pass validation.
RoundRequests == {r \in CheckpointRequests \cup ContinueRequests : WellFormed(r)}

\* The changes of a loop are within what its round cap admits.
WithinCap(loop) ==
    /\ Len(loop.checkpoints) <= loop.maxRounds
    /\ Continues(loop) <= loop.maxRounds - 1
    /\ Closes(loop) <= 1
    /\ Changes(loop) = Len(loop.checkpoints) + Continues(loop) + Closes(loop)
    /\ Changes(loop) <= 2 * loop.maxRounds

\* C40: every loop admits only finitely many state-changing operations: in
\* any sequence of operations a loop has at most maxRounds successful
\* checkpoints, at most maxRounds - 1 successful continues and at most one
\* state-changing close (at most 2 x maxRounds changes in total), after
\* which every further checkpoint or continue on it is rejected.
C40_FinitelyManyChanges ==
    /\ [](/\ \A id \in DOMAIN Registry : WithinCap(Registry[id])
          /\ \A r \in RoundRequests :
                 \E out \in {Response(r)} :
                     IF out.result.status = "error"
                     THEN loadResearchLoopRegistryFromDisk(out.file) = Registry
                     ELSE \E old \in {Registry[Get(r.loopId)]} :
                              /\ old.state # "closed"
                              /\ Changes(old) < 2 * old.maxRounds - 1
                              /\ Changes(loadResearchLoopRegistryFromDisk(out.file)[Get(r.loopId)])
                                     = Changes(old) + 1)
    /\ [][file' # file =>
            \E before \in {Registry} : \E after \in {Registry'} :
                \A id \in DOMAIN before :
                    \/ after[id] = before[id]
                    \/ Changes(after[id]) = Changes(before[id]) + 1]_vars

\* A loop with a cap of one round that was checkpointed and closed: its two
\* changes are used up, and a checkpoint and a continue of its owner are
\* both rejected.
C40_Witness ==
    \E id \in DOMAIN Registry :
        /\ Registry[id].maxRounds = 1
        /\ Registry[id].state = "closed"
        /\ Changes(Registry[id]) = 2 * Registry[id].maxRounds
        /\ \A r \in RoundRequests :
               r.loopId = Some(id) => Response(r).result.status = "error"

====
